---------------------------- MODULE Spec2Model ----------------------------
(***************************************************************************)
(* Meet-in-the-middle: the ranking engine (agents/ranking_agent.py), the   *)
(* travel-time comparison (tools/distance_matrix_tool.py) and the          *)
(* distance report (tools/midpoint_tools.py).                              *)
(*                                                                         *)
(* Numbers.  Python floats are modelled in fixed point:                    *)
(*   ratings in tenths (4.5 is 45), fairness ratios and scores in          *)
(*   hundredths (0.8 is 80, 100.0 is 10000), minutes in tenths.            *)
(* A Python value that may be a number, None or a string is a record       *)
(*   [t |-> "num" | "none" | "str", v |-> Int].                            *)
(* Python list index i (0-based, negative from the end) is position i+1 of *)
(* a TLA+ sequence.                                                        *)
(***************************************************************************)
EXTENDS Integers, Sequences, FiniteSets, TLC

VARIABLES
    pc,             \* position of rank_places: idle, enrich, delegate, done, raised
    places,         \* the caller's venue list
    pwt,            \* places_with_travel, built by the enrichment loop
    response,       \* what the reasoning delegate answered
    result,         \* the list rank_places returned
    path,           \* which branch built the result: none, ai, fallback
    exc,            \* the exception that left rank_places, or "none"
    oracleCalls,    \* get_travel_time calls made in this rank_places call
    delegateCalls,  \* generate_content calls made in this rank_places call
    distance_matrix_tool,
                    \* whether the agent was built with a distance matrix
                    \* tool (RankingAgent(api_key) alone leaves it None)
    oracleLog,      \* the get_travel_time calls made, in the order made
    fa, fb,         \* fairness ratio: the two measurements of travel time
    fPlaces,        \* fairness ratio: two coordinates and a midpoint
    fTime,          \* fairness ratio: outcome of the time-based ratio
    fDist,          \* fairness ratio: outcome of the distance-based ratio
    sVenue,         \* fallback score: one enriched venue
    sScore,         \* fallback score: its fallback score, or unset
    tList,          \* fallback order: the enriched venues handed in
    tDone,          \* fallback order: whether _fallback_ranking has run
    tOut,           \* fallback order: the list it returned
    coord1, coord2, \* midpoint: the two coordinates, each a pair of floats
    mode1, mode2,   \* midpoint: the two travel modes, as given
    mWeighted,      \* midpoint: what calculate_weighted_midpoint returned
    mSent,          \* midpoint: the mode get_travel_time put in its request
    flow,           \* main: the position of main() in its search loop
    session,        \* main: SessionManager.session_state
    steps,          \* main: the steps of the search flow taken so far
    midpoint,       \* main: the midpoint step 3 computed, or none
    flowExc,        \* main: the exception that left main(), or "none"
    heap,           \* frame: every dictionary there is, by identity
    callerList,     \* frame: the caller's venue list (identities)
    held,           \* frame: the lists earlier calls returned (identities)
    heldPaths,      \* frame: the branch that built each of them
    pointA, pointB, \* distance: two coordinates, in whole degrees
    dSelf,          \* distance: _calculate_distance from pointA to itself
    dThere,         \* distance: _calculate_distance from pointA to pointB
    dBack,          \* distance: _calculate_distance from pointB to pointA
    memory_file,    \* memory: what the memory file holds
    memory_bank,    \* memory: SessionManager.memory_bank
    manager,        \* memory: the SessionManager: new, ready or raised
    memExc,         \* memory: the exception a memory operation raised
    loaded,         \* memory: the memory bank as the constructor left it
    recorded,       \* memory: the record_search calls made so far
    latest,         \* memory: the priority selected last in the menu
    user_prefs      \* memory: the preferences built for the next ranking

vars == <<pc, places, pwt, response, result, path, exc, oracleCalls,
          delegateCalls, distance_matrix_tool, oracleLog, fa, fb, fPlaces, fTime,
          fDist, sVenue, sScore,
          tList, tDone, tOut, coord1, coord2, mode1, mode2, mWeighted,
          mSent, flow, session, steps, midpoint, flowExc,
          heap, callerList, held, heldPaths, pointA, pointB, dSelf, dThere,
          dBack, memory_file, memory_bank, manager, memExc, loaded, recorded,
          latest, user_prefs>>

rankVars == <<pc, places, pwt, response, result, path, exc, oracleCalls,
              delegateCalls, distance_matrix_tool, oracleLog>>
fairVars == <<fa, fb, fPlaces, fTime, fDist>>
scoreVars == <<sVenue, sScore>>
sortVars == <<tList, tDone, tOut>>
midVars == <<coord1, coord2, mode1, mode2, mWeighted, mSent>>
mainVars == <<flow, session, steps, midpoint, flowExc>>
frameVars == <<heap, callerList, held, heldPaths>>
distVars == <<pointA, pointB, dSelf, dThere, dBack>>
memVars == <<memory_file, memory_bank, manager, memExc, loaded, recorded,
             latest, user_prefs>>

---------------------------------------------------------------------------
(* Bounds of the model *)

\* longest venue list handed to rank_places
MaxVenues == 3

\* largest measurement (seconds, or distance units) of the fairness ratio
MaxMeasure == 7

\* most rank_places calls one caller makes on its venue list
MaxCalls == 2

\* largest longitude west, in whole degrees, of the midpoint model
MaxCoord == 2

---------------------------------------------------------------------------
(* Python values *)

Num(n) == [t |-> "num", v |-> n]
None == [t |-> "none", v |-> 0]
Str == [t |-> "str", v |-> 0]

Min(a, b) == IF a <= b THEN a ELSE b
Max(a, b) == IF a >= b THEN a ELSE b
Abs(a) == IF a < 0 THEN -a ELSE a

RECURSIVE Pow2(_)
Pow2(n) == IF n = 0 THEN 1 ELSE 2 * Pow2(n - 1)

\* number of bits of the whole number q
RECURSIVE BitLength(_)
BitLength(q) == IF q = 0 THEN 0 ELSE 1 + BitLength(q \div 2)

\* the fraction r/den, 0 < r < den, in binary: what is left of it below its
\* leading 1 bit
RECURSIVE BelowLeadingBit(_, _)
BelowLeadingBit(r, den) ==
    IF 2 * r >= den THEN 2 * r - den ELSE BelowLeadingBit(2 * r, den)

\* the next n bits of r/den: what is left below them, and the last of them
RECURSIVE NextBits(_, _, _, _)
NextBits(r, den, n, last) ==
    IF n = 0 THEN [rest |-> r, last |-> last]
    ELSE IF 2 * r >= den THEN NextBits(2 * r - den, den, n - 1, 1)
    ELSE NextBits(2 * r, den, n - 1, 0)

\* Where the float num / den lies, num and den being whole numbers, num >= 0:
\* 1 above the quotient, -1 below it, 0 on it.  A Python float keeps 53
\* significant bits and the division rounds to the nearest float, a tie to
\* the even one.
FloatSide(num, den) ==
    LET q == num \div den
        r == num % den
        cut == IF q > 0 THEN NextBits(r, den, 53 - BitLength(q), q % 2)
               ELSE NextBits(BelowLeadingBit(r, den), den, 52, 1)
    IN  IF r = 0 \/ cut.rest = 0 THEN 0
        ELSE IF 2 * cut.rest > den \/ (2 * cut.rest = den /\ cut.last = 1)
        THEN 1
        ELSE 0 - 1

\* Python's round(num / den, ndigits) in units of 10^-ndigits (units is
\* 10^ndigits).  round() gives the decimal nearest to the float, not to the
\* quotient: a quotient that lies halfway between two decimals goes where
\* its float lies, and to the even decimal when the float is that halfway
\* point exactly.
Round(num, den, units) ==
    LET q == (units * num) \div den
        r == (units * num) % den
        side == FloatSide(num, den)
    IN  IF 2 * r < den THEN q
        ELSE IF 2 * r > den THEN q + 1
        ELSE IF side > 0 THEN q + 1
        ELSE IF side < 0 THEN q
        ELSE IF q % 2 = 0 THEN q ELSE q + 1

---------------------------------------------------------------------------
(* The venues.  A venue is the dictionary PlaceFinderAgent hands over,     *)
(* reduced to the keys the ranking reads.  The first three are the sample  *)
(* venues of the module's own test run; the fourth is a venue for which    *)
(* the places search found no rating, no reviews and no opening hours.     *)

Catalogue(i) ==
    LET k == ((i - 1) % 4) + 1
    IN  [name |-> i,
         rating |-> CASE k = 1 -> Num(45)
                      [] k = 2 -> Num(48)
                      [] k = 3 -> Num(39)
                      [] OTHER -> Str,
         user_ratings_total |-> CASE k = 1 -> 320
                                  [] k = 2 -> 45
                                  [] k = 3 -> 850
                                  [] OTHER -> 0,
         open_now |-> CASE k = 1 -> "true"
                        [] k = 2 -> "true"
                        [] k = 3 -> "false"
                        [] OTHER -> "null"]

\* the venue lists rank_places is called with
VenueLists == { [i \in 1..n |-> Catalogue(i)] : n \in 0..MaxVenues }

---------------------------------------------------------------------------
(* tools/distance_matrix_tool.py *)

\* What get_travel_time returns: every failure of the request (transport
\* error, bad status, no route, malformed body) becomes success = False;
\* a success carries the duration in seconds and its text.
Failure == [success |-> FALSE, duration_seconds |-> 0]
Measured(sec) == [success |-> TRUE, duration_seconds |-> sec]

\* the durations (seconds) the oracle answers with in the ranking model
OracleDurations == {0, 300}
Measurements == {Failure} \cup { Measured(d) : d \in OracleDurations }

\* min(d1, d2) / max(d1, d2), rounded to two places; division by zero raises
FairnessTime(d1, d2) ==
    IF Max(d1, d2) = 0
    THEN [raised |-> TRUE, ratio |-> 0]
    ELSE [raised |-> FALSE,
          ratio |-> Round(Min(d1, d2), Max(d1, d2), 100)]

\* round(time_diff / 60, 1), in tenths of a minute
TimeDifferenceMinutes(d1, d2) == Round(Abs(d1 - d2), 60, 10)

CompareTravelTimes(time1, time2) ==
    IF ~time1.success \/ ~time2.success
    THEN [raised |-> FALSE, success |-> FALSE, fairness_ratio |-> 0,
          text1 |-> None, text2 |-> None, time_difference_minutes |-> 0]
    ELSE LET f == FairnessTime(time1.duration_seconds, time2.duration_seconds)
         IN  IF f.raised
             THEN [raised |-> TRUE, success |-> FALSE, fairness_ratio |-> 0,
                   text1 |-> None, text2 |-> None,
                   time_difference_minutes |-> 0]
             ELSE [raised |-> FALSE, success |-> TRUE,
                   fairness_ratio |-> f.ratio,
                   text1 |-> Num(time1.duration_seconds),
                   text2 |-> Num(time2.duration_seconds),
                   time_difference_minutes |->
                       TimeDifferenceMinutes(time1.duration_seconds,
                                             time2.duration_seconds)]

---------------------------------------------------------------------------
(* tools/midpoint_tools.py *)

\* The midpoint tool works on Python floats, IEEE binary64 numbers: whether
\* _calculate_distance raises turns on the last bit of a, and whether the
\* weighted midpoint is the simple one on the last bit of a coordinate.
\* The floats are therefore modelled in full: a float is
\* (-1)^neg * m * 2^e, with a significand m of 53 bits, or of fewer bits
\* and e = MinExponent (a subnormal float), or of none (zero).  m and the
\* intermediate values, which need more than an integer of TLC holds, are
\* natural numbers written as sequences of limbs, least significant first,
\* without leading zero limbs.

LimbBits == 13
Base == 8192

Limb(a, i) == IF i >= 1 /\ i <= Len(a) THEN a[i] ELSE 0

RECURSIVE Trim(_)
Trim(a) ==
    IF a = <<>> THEN a
    ELSE IF a[Len(a)] # 0 THEN a
    ELSE Trim(SubSeq(a, 1, Len(a) - 1))

\* the limbs of the number whose i-th limb would be cols[i], were it below
\* Base
RECURSIVE Carried(_, _, _)
Carried(cols, i, carry) ==
    IF i > Len(cols)
    THEN IF carry = 0 THEN <<>>
         ELSE <<carry % Base>> \o Carried(cols, i, carry \div Base)
    ELSE <<(cols[i] + carry) % Base>>
             \o Carried(cols, i + 1, (cols[i] + carry) \div Base)

BigAdd(a, b) ==
    IF a = <<>> THEN b
    ELSE IF b = <<>> THEN a
    ELSE Carried([i \in 1..Max(Len(a), Len(b)) |-> Limb(a, i) + Limb(b, i)],
                 1, 0)

\* a - b, for a >= b: a column below 0 borrows, \div rounding down
BigSub(a, b) ==
    Trim(Carried([i \in 1..Len(a) |-> a[i] - Limb(b, i)], 1, 0))

RECURSIVE CmpFrom(_, _, _)
CmpFrom(a, b, i) ==
    IF i = 0 THEN 0
    ELSE IF a[i] > b[i] THEN 1
    ELSE IF a[i] < b[i] THEN 0 - 1
    ELSE CmpFrom(a, b, i - 1)

\* 1, 0 or -1 as a is above, at or below b
BigCmp(a, b) ==
    IF Len(a) > Len(b) THEN 1
    ELSE IF Len(a) < Len(b) THEN 0 - 1
    ELSE CmpFrom(a, b, Len(a))

\* a[i] b[k+1-i] + a[i+1] b[k-i] + ..., the products that fall in limb k
RECURSIVE ColumnSum(_, _, _, _)
ColumnSum(a, b, k, i) ==
    IF i > Len(a) \/ i > k THEN 0
    ELSE a[i] * b[k + 1 - i] + ColumnSum(a, b, k, i + 1)

BigMul(a, b) ==
    IF a = <<>> \/ b = <<>> THEN <<>>
    ELSE Trim(Carried([k \in 1..(Len(a) + Len(b) - 1) |->
                          ColumnSum(a, b, k, Max(1, k + 1 - Len(b)))],
                      1, 0))

\* a \div n for a small n: the quotient's limbs, dividing from the top
\* limb down
RECURSIVE DivLimbs(_, _, _, _)
DivLimbs(a, n, i, rem) ==
    IF i = 0 THEN <<>>
    ELSE DivLimbs(a, n, i - 1, (rem * Base + a[i]) % n)
             \o <<(rem * Base + a[i]) \div n>>

BigDivSmall(a, n) ==
    IF a = <<>> THEN <<>>
    ELSE Trim(DivLimbs(a, n, Len(a), 0))

BitLen(a) ==
    IF a = <<>> THEN 0
    ELSE LimbBits * (Len(a) - 1) + BitLength(a[Len(a)])

\* a * 2^k and a \div 2^k
ShiftLeft(a, k) ==
    IF a = <<>> THEN <<>>
    ELSE [i \in 1..(k \div LimbBits) |-> 0]
             \o BigMul(a, <<Pow2(k % LimbBits)>>)

ShiftRight(a, k) ==
    IF k \div LimbBits >= Len(a) THEN <<>>
    ELSE BigDivSmall(SubSeq(a, (k \div LimbBits) + 1, Len(a)),
                     Pow2(k % LimbBits))

\* A float, and the float nearest to m * 2^e, a tie going to the even
\* significand; sticky says that the number rounded is a little above
\* m * 2^e, by less than 2^e.
Float(neg, m, e) == [neg |-> neg, m |-> m, e |-> e]

Zero == Float(FALSE, <<>>, 0)

\* the exponent of the last bit of the smallest floats
MinExponent == 0 - 1074

\* d is the number of low bits m gives up: those beyond 53, and those
\* below MinExponent
Binary64(neg, m, e, sticky) ==
    IF m = <<>> THEN Zero
    ELSE LET d == Max(BitLen(m) - 53, MinExponent - e)
             kept == ShiftRight(m, d - 1)
             q == ShiftRight(kept, 1)
             exact == ShiftLeft(kept, d - 1) = m
             up == Limb(kept, 1) % 2 = 1
                   /\ (~exact \/ sticky \/ Limb(q, 1) % 2 = 1)
             r == IF up THEN BigAdd(q, <<1>>) ELSE q
         IN  IF d <= 0 THEN Float(neg, ShiftLeft(m, 0 - d), e + d)
             ELSE IF r = <<>> THEN Zero
             ELSE IF BitLen(r) > 53 THEN Float(neg, ShiftRight(r, 1), e + d + 1)
             ELSE Float(neg, r, e + d)

\* float(n) of an int, and the float operators *, +, -, / by a small whole
\* number, and /
FromInt(n) == Binary64(n < 0, Trim(Carried(<<Abs(n)>>, 1, 0)), 0, FALSE)

FloatMul(x, y) == Binary64(x.neg # y.neg, BigMul(x.m, y.m), x.e + y.e, FALSE)

FloatAdd(x, y) ==
    IF x.m = <<>> THEN y
    ELSE IF y.m = <<>> THEN x
    ELSE LET e == Min(x.e, y.e)
             a == ShiftLeft(x.m, x.e - e)
             b == ShiftLeft(y.m, y.e - e)
         IN  IF x.neg = y.neg THEN Binary64(x.neg, BigAdd(a, b), e, FALSE)
             ELSE IF BigCmp(a, b) = 0 THEN Zero
             ELSE IF BigCmp(a, b) > 0
             THEN Binary64(x.neg, BigSub(a, b), e, FALSE)
             ELSE Binary64(y.neg, BigSub(b, a), e, FALSE)

FloatSub(x, y) ==
    FloatAdd(x, IF y.m = <<>> THEN y ELSE [y EXCEPT !.neg = ~y.neg])

FloatDivSmall(x, n) ==
    LET m == ShiftLeft(x.m, 20)
        q == BigDivSmall(m, n)
    IN  Binary64(x.neg, q, x.e - 20, BigMul(q, <<n>>) # m)

\* The element of a set of one.  Only({ f(v) : v \in {e} }) is f(e), with e
\* worked out once however often f uses it.
Only(S) == CHOOSE v \in S : TRUE

\* n * 2^bits \div d and what it leaves, for n < d: one bit of the quotient
\* at a time, q being the bits found so far
RECURSIVE DivBits(_, _, _, _)
DivBits(n, d, q, bits) ==
    IF bits = 0 THEN [q |-> q, rem |-> n]
    ELSE Only({ IF BigCmp(n2, d) >= 0
                THEN DivBits(BigSub(n2, d), d, BigAdd(q2, <<1>>), bits - 1)
                ELSE DivBits(n2, d, q2, bits - 1)
                : n2 \in {ShiftLeft(n, 1)}, q2 \in {ShiftLeft(q, 1)} })

\* n * 2^(LimbBits * limbs) \div d and what it leaves, for n < d: one limb
\* of the quotient at a time
RECURSIVE LongDiv(_, _, _, _)
LongDiv(n, d, q, limbs) ==
    IF limbs = 0 THEN [q |-> q, rem |-> n]
    ELSE Only({ LongDiv(r.rem, d, r.q, limbs - 1)
                : r \in {DivBits(n, d, q, LimbBits)} })

\* x / y for y # 0: the significands are brought to the same length, and
\* the quotient is taken to five limbs after its first bit
FloatDiv(x, y) ==
    IF x.m = <<>> THEN Zero
    ELSE Only({ Only({ Binary64(x.neg # y.neg, r.q,
                                x.e - y.e - 5 * LimbBits
                                    + (BitLen(x.m) - BitLen(y.m)),
                                r.rem # <<>>)
                       : r \in {IF BigCmp(n, d) >= 0
                                THEN LongDiv(BigSub(n, d), d, <<1>>, 5)
                                ELSE LongDiv(n, d, <<>>, 5)} })
                : n \in {ShiftLeft(x.m, Max(0, BitLen(y.m) - BitLen(x.m)))},
                  d \in {ShiftLeft(y.m, Max(0, BitLen(x.m) - BitLen(y.m)))} })

\* the float a decimal literal num/den stands for: the float nearest to it
Literal(num, den) == FloatDiv(FromInt(num), FromInt(den))

\* x < y
Less(x, y) == FloatSub(x, y).neg

\* round(x, ndigits) for x >= 0 and units = 10^ndigits: the float nearest
\* to the multiple of 1/units that is nearest to x, a tie between two
\* multiples going to the even one
RoundFloat(x, units) ==
    IF x.m = <<>> THEN x
    ELSE LET n == BigMul(x.m, <<units>>)
             d == 0 - x.e
             kept == ShiftRight(n, d - 1)
             q == ShiftRight(kept, 1)
             exact == ShiftLeft(kept, d - 1) = n
             up == Limb(kept, 1) % 2 = 1 /\ (~exact \/ Limb(q, 1) % 2 = 1)
             k == IF d <= 0 THEN ShiftLeft(n, 0 - d)
                  ELSE IF up THEN BigAdd(q, <<1>>) ELSE q
         IN  FloatDivSmall(Binary64(x.neg, k, 0, FALSE), units)

\* The functions of the math module are worked out in fixed point,
\* FracLimbs limbs after the point.
FracLimbs == 9
FracBits == LimbBits * FracLimbs

One == ShiftLeft(<<1>>, FracBits)

\* the magnitude of a float in fixed point
ToFixed(x) ==
    IF FracBits + x.e >= 0 THEN ShiftLeft(x.m, FracBits + x.e)
    ELSE ShiftRight(x.m, 0 - (FracBits + x.e))

FixMul(a, b) ==
    LET p == BigMul(a, b)
    IN  IF Len(p) <= FracLimbs THEN <<>>
        ELSE SubSeq(p, FracLimbs + 1, Len(p))

\* a - b with its sign
Diff(a, b) ==
    IF BigCmp(a, b) >= 0 THEN [neg |-> FALSE, v |-> BigSub(a, b)]
    ELSE [neg |-> TRUE, v |-> BigSub(b, a)]

\* 1/sqrt(v) in fixed point for 1 <= v < 4, by Newton's iteration from the
\* estimate y: y (3 - v y^2) / 2
RECURSIVE RootReciprocal(_, _, _)
RootReciprocal(v, y, rounds) ==
    IF rounds = 0 THEN y
    ELSE Only({ RootReciprocal(v, next, rounds - 1)
                : next \in {ShiftRight(
                               FixMul(y, BigSub(BigMul(One, <<3>>),
                                                FixMul(v, FixMul(y, y)))),
                               1)} })

\* the largest r with r * r <= n, from an estimate r of it
RECURSIVE WholeRoot(_, _)
WholeRoot(n, r) ==
    IF BigCmp(BigMul(r, r), n) > 0 THEN WholeRoot(n, BigSub(r, <<1>>))
    ELSE Only({ IF BigCmp(BigMul(above, above), n) <= 0
                THEN WholeRoot(n, above)
                ELSE r
                : above \in {BigAdd(r, <<1>>)} })

\* math.sqrt, for x >= 0: the float nearest to the square root, from the
\* whole root of the significand m brought to 109 or 110 bits.  That root
\* is estimated as m / sqrt(m): v = m * 2^-108 is at least 1 and below 4,
\* and 1/sqrt(v) is sought from 0.85 when v is below 2, from 0.6 otherwise.
Sqrt(x) ==
    IF x.m = <<>> THEN x
    ELSE LET s == 109 - BitLen(x.m) + ((x.e - (109 - BitLen(x.m))) % 2)
             m == ShiftLeft(x.m, s)
             v == ShiftLeft(m, FracBits - 108)
             start == IF BitLen(m) = 109
                      THEN BigDivSmall(BigMul(One, <<17>>), 20)
                      ELSE BigDivSmall(BigMul(One, <<3>>), 5)
         IN  Only({ Binary64(FALSE, r, (x.e - s) \div 2, BigMul(r, r) # m)
                    : r \in {WholeRoot(
                                m,
                                ShiftRight(
                                    FixMul(v, RootReciprocal(v, start, 6)),
                                    FracBits - 54))} })

\* The C library's sin, cos, atan2 and pow give a float within one unit in
\* the last place of the function's value: one of the two floats the value
\* lies between, or the value itself when it is a float.  Which of the two
\* is the library's matter, and here either may come.  Around is that set
\* for the value m * 2^e, or for a value a little above it, by less than
\* 2^e, when sticky.
Around(neg, m, e, sticky) ==
    IF m = <<>> THEN {Zero}
    ELSE LET d == Max(BitLen(m) - 53, MinExponent - e)
             below == IF d <= 0 THEN ShiftLeft(m, 0 - d) ELSE ShiftRight(m, d)
         IN  IF ~sticky /\ (d <= 0 \/ ShiftLeft(below, d) = m)
             THEN {Binary64(neg, below, e + d, FALSE)}
             ELSE {Binary64(neg, below, e + d, FALSE),
                   Binary64(neg, BigAdd(below, <<1>>), e + d, FALSE)}

\* term - term x2/((n+1)(n+2)) + ... down to the last term that is not 0,
\* the terms added and the terms subtracted summed apart: the power series
\* of the sine (term = x, n = 1) and of the cosine (term = 1, n = 0), x2
\* being x squared
RECURSIVE Series(_, _, _)
Series(x2, term, n) ==
    IF term = <<>> THEN [plus |-> <<>>, minus |-> <<>>]
    ELSE LET rest == Series(x2,
                            BigDivSmall(FixMul(term, x2), (n + 1) * (n + 2)),
                            n + 2)
         IN  [plus |-> BigAdd(term, rest.minus), minus |-> rest.plus]

FixSin(t) ==
    Only({ Diff(s.plus, s.minus) : s \in {Series(FixMul(t, t), t, 1)} })

FixCos(t) ==
    Only({ Diff(s.plus, s.minus) : s \in {Series(FixMul(t, t), One, 0)} })

\* math.sin and math.cos, for angles from -pi to pi.  A float below 2^-26
\* in size is its own sine, and one below 2^-27 has cosine 1: these are
\* the floats nearest to the value, and the library gives them.
Sin(x) ==
    IF x.m = <<>> \/ x.e < 0 - 79 THEN {x}
    ELSE UNION { Around(x.neg # v.neg, v.v, 0 - FracBits, TRUE)
                 : v \in {FixSin(ToFixed(x))} }

Cos(x) ==
    IF x.m = <<>> \/ x.e < 0 - 80 THEN {FromInt(1)}
    ELSE UNION { Around(v.neg, v.v, 0 - FracBits, TRUE)
                 : v \in {FixCos(ToFixed(x))} }

\* x ** 2, the library's pow(x, 2.0)
Squared(x) == Around(FALSE, BigMul(x.m, x.m), 2 * x.e, FALSE)

\* math.pi, and the factor math.radians multiplies by
Pi == Float(FALSE, <<3352, 545, 7893, 4675, 1>>, 0 - 51)
Radians(x) == FloatMul(x, FloatDivSmall(Pi, 180))

\* 1/v in fixed point for v near 1, by Newton's iteration from 1
RECURSIVE Reciprocal(_, _, _)
Reciprocal(v, r, rounds) ==
    IF rounds = 0 \/ r = <<>> THEN r
    ELSE Only({ Reciprocal(v, next, rounds - 1)
                : next \in {FixMul(r, BigSub(ShiftLeft(One, 1),
                                             FixMul(v, r)))} })

\* The angle of the point (fx, fy) of the unit circle's first quadrant,
\* from the estimate t: d is the tangent of what t lacks, d - d^3/3 its arc
\* tangent nearly, and each step brings the error to its fifth power.  The
\* step on which d is below 2^-24 is the last.
RECURSIVE Angle(_, _, _, _)
Angle(fy, fx, t, rounds) ==
    IF rounds = 0 \/ t = <<>> THEN t
    ELSE Only({
           Only({
             Only({ Angle(fy, fx,
                          IF u.neg
                          THEN BigSub(t, BigSub(d, BigDivSmall(
                                   FixMul(FixMul(d, d), d), 3)))
                          ELSE BigAdd(t, BigSub(d, BigDivSmall(
                                   FixMul(FixMul(d, d), d), 3))),
                          IF BitLen(d) <= FracBits - 24 THEN 0
                          ELSE rounds - 1)
                    : d \in {FixMul(u.v, Reciprocal(v, One, 6))} })
             : u \in {Diff(FixMul(fy, c), FixMul(fx, s))},
               v \in {BigAdd(FixMul(fx, c), FixMul(fy, s))} })
           : s \in {FixSin(t).v}, c \in {FixCos(t).v} })

\* The estimate Angle starts from.  The smaller of fy and fx is the sine of
\* the angle to the nearer axis, and four terms of the arc sine's series,
\* s + s^3/6 + 3 s^5/40 + 5 s^7/112, give that angle to 0.002 or closer.
AngleStart(fy, fx) ==
    LET s == IF BigCmp(fy, fx) <= 0 THEN fy ELSE fx
        s2 == FixMul(s, s)
        s3 == FixMul(s, s2)
        s5 == FixMul(s3, s2)
        s7 == FixMul(s5, s2)
        arc == BigAdd(BigAdd(s, BigDivSmall(s3, 6)),
                      BigAdd(BigDivSmall(BigMul(s5, <<3>>), 40),
                             BigDivSmall(BigMul(s7, <<5>>), 112)))
    IN  IF BigCmp(fy, fx) <= 0 THEN arc
        ELSE BigSub(ShiftRight(ToFixed(Pi), 1), arc)

\* math.atan2 for y >= 0 and x >= 0 with x^2 + y^2 near 1, as the square
\* roots of a and 1 - a are.  A y below 2^-27 beside x = 1 is its own
\* angle.
Atan2(y, x) ==
    IF y.m = <<>> \/ (y.e < 0 - 80 /\ x = FromInt(1)) THEN {y}
    ELSE IF x.m = <<>> THEN {FloatDivSmall(Pi, 2)}
    ELSE UNION { Around(FALSE, Angle(f.y, f.x, AngleStart(f.y, f.x), 4),
                        0 - FracBits, TRUE)
                 : f \in {[y |-> ToFixed(y), x |-> ToFixed(x)]} }

\* Earth's radius in kilometres
R == 6371

\* a, the haversine of the central angle: every float the expression can
\* come to
Haversine(lat1, lng1, lat2, lng2) ==
    LET lat1_rad == Radians(lat1)
        lat2_rad == Radians(lat2)
        dlat == Radians(FloatSub(lat2, lat1))
        dlng == Radians(FloatSub(lng2, lng1))
    IN  { FloatAdd(sqlat, rest) :
              sqlat \in UNION { Squared(s) : s \in Sin(FloatDivSmall(dlat, 2)) },
              rest \in { FloatMul(cc, sqlng) :
                           cc \in { FloatMul(c1, c2) : c1 \in Cos(lat1_rad),
                                                       c2 \in Cos(lat2_rad) },
                           sqlng \in UNION { Squared(s) :
                                               s \in Sin(FloatDivSmall(dlng, 2)) } } }

\* math.sqrt(a) and math.sqrt(1 - a); math.sqrt raises ValueError for a
\* negative argument
Roots(a) ==
    IF a.neg \/ FloatSub(FromInt(1), a).neg
    THEN [raised |-> TRUE, y |-> Zero, x |-> Zero]
    ELSE [raised |-> FALSE, y |-> Sqrt(a), x |-> Sqrt(FloatSub(FromInt(1), a))]

\* _calculate_distance in kilometres: the outcomes the call can have, a
\* ValueError or a distance
CalculateDistance(lat1, lng1, lat2, lng2) ==
    UNION { IF roots.raised THEN {[raised |-> TRUE, km |-> Zero]}
            ELSE { [raised |-> FALSE,
                    km |-> FloatMul(FromInt(R), FloatMul(FromInt(2), angle))]
                   : angle \in Atan2(roots.y, roots.x) }
            : roots \in { Roots(a) : a \in Haversine(lat1, lng1, lat2, lng2) } }

\* the keys of TRAVEL_WEIGHTS
TravelModes == {"walking", "bicycling", "transit", "driving"}

TRAVEL_WEIGHTS ==
    [m \in TravelModes |->
        CASE m = "walking" -> Literal(10, 10)
          [] m = "bicycling" -> Literal(8, 10)
          [] m = "transit" -> Literal(7, 10)
          [] OTHER -> Literal(5, 10)]

\* the mode strings of the model: the four keys, one of them capitalised,
\* and one that is no key in any case
ModeInputs == TravelModes \cup {"Walking", "teleport"}

\* str.lower()
Lower(mode) == IF mode = "Walking" THEN "walking" ELSE mode

\* TRAVEL_WEIGHTS.get(mode.lower(), TRAVEL_WEIGHTS['transit'])
WeightOf(mode) ==
    IF Lower(mode) \in TravelModes THEN TRAVEL_WEIGHTS[Lower(mode)]
    ELSE TRAVEL_WEIGHTS["transit"]

CalculateSimpleMidpoint(c1, c2) ==
    [lat |-> FloatDivSmall(FloatAdd(c1.lat, c2.lat), 2),
     lng |-> FloatDivSmall(FloatAdd(c1.lng, c2.lng), 2),
     method |-> "simple_geographic"]

\* total_weight
TotalWeight(weight1, weight2) == FloatAdd(weight1, weight2)

\* (a * weight1 + b * weight2) / total_weight
WeightedMean(a, b, weight1, weight2) ==
    FloatDiv(FloatAdd(FloatMul(a, weight1), FloatMul(b, weight2)),
             TotalWeight(weight1, weight2))

\* no result yet
NoMidpoint ==
    [lat |-> Zero, lng |-> Zero, method |-> "none", mode1 |-> "",
     mode2 |-> "", weight1 |-> Zero, weight2 |-> Zero,
     adjustment_km |-> Zero]

\* The results calculate_weighted_midpoint can have: one for each outcome
\* of _calculate_distance, whose ValueError leaves the call.  The two
\* weighted means and the simple midpoint are each worked out once, and
\* named.
CalculateWeightedMidpoint(c1, c2, m1, m2) ==
    UNION { { IF adjustment.raised
              THEN [NoMidpoint EXCEPT !.method = "ValueError"]
              ELSE [lat |-> weighted_lat,
                    lng |-> weighted_lng,
                    method |-> "weighted_by_travel_mode",
                    mode1 |-> m1, mode2 |-> m2,
                    weight1 |-> WeightOf(m1), weight2 |-> WeightOf(m2),
                    adjustment_km |-> RoundFloat(adjustment.km, 100)]
              : adjustment \in
                    CalculateDistance(simple_mid.lat, simple_mid.lng,
                                      weighted_lat, weighted_lng) }
           : weighted_lat \in
                 {WeightedMean(c1.lat, c2.lat, WeightOf(m1), WeightOf(m2))},
             weighted_lng \in
                 {WeightedMean(c1.lng, c2.lng, WeightOf(m1), WeightOf(m2))},
             simple_mid \in {CalculateSimpleMidpoint(c1, c2)} }

\* x > 0
Positive(x) == ~x.neg /\ x.m # <<>>

\* calculate_distance_from_midpoint from the two distances on: the
\* dictionary it returns, and with it the distances dist1 and dist2
FairnessDist(dist1, dist2) ==
    LET fairness == IF Positive(dist1) /\ Positive(dist2)
                    THEN IF Less(dist2, dist1) THEN FloatDiv(dist2, dist1)
                         ELSE FloatDiv(dist1, dist2)
                    ELSE FromInt(1)
    IN  [raised |-> FALSE,
         dist1 |-> dist1,
         dist2 |-> dist2,
         distance1_km |-> RoundFloat(dist1, 100),
         distance2_km |-> RoundFloat(dist2, 100),
         fairness_ratio |-> RoundFloat(fairness, 100)]

\* The outcomes calculate_distance_from_midpoint can have.  A ValueError
\* of either _calculate_distance leaves the call.  For two people at one
\* coordinate the second call is the first again, and gives the float the
\* first gave.
CalculateDistanceFromMidpoint(c1, c2, mid) ==
    UNION { { IF dist1.raised \/ dist2.raised THEN [raised |-> TRUE]
              ELSE FairnessDist(dist1.km, dist2.km)
              : dist2 \in IF c2 = c1 THEN {dist1} ELSE others }
            : dist1 \in CalculateDistance(c1.lat, c1.lng, mid.lat, mid.lng),
              others \in {IF c2 = c1 THEN {}
                          ELSE CalculateDistance(c2.lat, c2.lng,
                                                 mid.lat, mid.lng)} }

---------------------------------------------------------------------------
(* agents/ranking_agent.py: enrichment *)

\* place_copy of the enrichment loop
EnrichPlace(place, info) ==
    IF info.success
    THEN [name |-> place.name, rating |-> place.rating,
          user_ratings_total |-> place.user_ratings_total,
          open_now |-> place.open_now,
          travel_fairness |-> Num(info.fairness_ratio),
          time_person1 |-> info.text1,
          time_person2 |-> info.text2,
          time_difference_min |-> Num(info.time_difference_minutes)]
    ELSE [name |-> place.name, rating |-> place.rating,
          user_ratings_total |-> place.user_ratings_total,
          open_now |-> place.open_now,
          travel_fairness |-> None,
          time_person1 |-> None,
          time_person2 |-> None,
          time_difference_min |-> None]

---------------------------------------------------------------------------
(* agents/ranking_agent.py: _fallback_ranking *)

\* ScoreSum without the cap on the reviews term
ScoreSumUncapped(place) ==
      (IF place.rating.t = "num" THEN place.rating.v * 1000 ELSE 0)
    + place.user_ratings_total * 100
    + (IF place.travel_fairness.t = "num" /\ place.travel_fairness.v # 0
       THEN place.travel_fairness.v * 250 ELSE 0)
    + (IF place.open_now = "true" THEN 10000 ELSE 0)

\* the unrounded score, in thousandths
ScoreSum(place) ==
      (IF place.rating.t = "num" THEN place.rating.v * 1000 ELSE 0)
    + Min(place.user_ratings_total * 100, 25000)
    + (IF place.travel_fairness.t = "num" /\ place.travel_fairness.v # 0
       THEN place.travel_fairness.v * 250 ELSE 0)
    + (IF place.open_now = "true" THEN 10000 ELSE 0)

\* round(score, 2), in hundredths
FallbackScore(place) == Round(ScoreSum(place), 1000, 100)

\* a returned venue: the enriched venue plus rank, reasoning and score
Ranked(place, rank, reasoning, score) ==
    [name |-> place.name, rating |-> place.rating,
     user_ratings_total |-> place.user_ratings_total,
     open_now |-> place.open_now,
     travel_fairness |-> place.travel_fairness,
     time_person1 |-> place.time_person1,
     time_person2 |-> place.time_person2,
     time_difference_min |-> place.time_difference_min,
     rank |-> rank, ai_reasoning |-> reasoning, score |-> score]

\* InsertDesc with the equal scores the wrong way round
RECURSIVE InsertDescUnstable(_, _)
InsertDescUnstable(sorted, e) ==
    IF sorted = <<>> THEN <<e>>
    ELSE IF FallbackScore(Head(sorted)) > FallbackScore(e)
         THEN <<Head(sorted)>> \o InsertDescUnstable(Tail(sorted), e)
         ELSE <<e>> \o sorted

\* sorted(..., key = score, reverse = True) inserts e behind every element
\* whose score is at least its own: descending and stable
RECURSIVE InsertDesc(_, _)
InsertDesc(sorted, e) ==
    IF sorted = <<>> THEN <<e>>
    ELSE IF FallbackScore(Head(sorted)) >= FallbackScore(e)
         THEN <<Head(sorted)>> \o InsertDesc(Tail(sorted), e)
         ELSE <<e>> \o sorted

\* SortedByScore that keeps one venue of every score
RECURSIVE SortedByScoreNoTies(_)
SortedByScoreNoTies(ps) ==
    IF ps = <<>> THEN <<>>
    ELSE LET rest == SortedByScoreNoTies(SubSeq(ps, 1, Len(ps) - 1))
             e == ps[Len(ps)]
         IN  IF \E k \in 1..Len(rest) :
                    FallbackScore(rest[k]) = FallbackScore(e)
             THEN rest ELSE InsertDesc(rest, e)

RECURSIVE SortedByScore(_)
SortedByScore(ps) ==
    IF ps = <<>> THEN <<>>
    ELSE InsertDesc(SortedByScore(SubSeq(ps, 1, Len(ps) - 1)), ps[Len(ps)])

FallbackRanking(ps) ==
    LET ranked == SortedByScore(ps)
    IN  [i \in 1..Len(ranked) |->
            Ranked(ranked[i], i,
                   [src |-> "score", v |-> FallbackScore(ranked[i])],
                   Num(FallbackScore(ranked[i])))]

---------------------------------------------------------------------------
(* agents/ranking_agent.py: _rank_with_ai *)

(* What the reasoning delegate does with one request:                      *)
(*   kind  "raise"      generate_content raises, or the answer has no text *)
(*         "badjson"    the text is not JSON: json.loads raises            *)
(*         "nonobject"  JSON, but a list, string, number or null           *)
(*         "object"     a JSON object                                      *)
(*   ri    the value under ranked_indices of an object:                    *)
(*         "absent"     no such key                                        *)
(*         "noniter"    null, a number or a boolean                        *)
(*         "emptyiter"  an empty string or an empty object                 *)
(*         "list"       a list, its elements in items                      *)
(*   items elements [t |-> "int", v |-> i] (the integer i),                *)
(*         [t |-> "float", v |-> i] (the number i + 0.5) and               *)
(*         [t |-> "str", v |-> 0] (a string)                               *)
(*   reasoning  "dict" (an object with a reason for every index),          *)
(*         "absent" (no such key), "nondict" (a list, string, number),     *)
(*         "nulls" (an object with null for every index)                   *)

\* longest ranked_indices list the delegate answers with
MaxOrder == 2

Int_(i) == [t |-> "int", v |-> i]
Float_(i) == [t |-> "float", v |-> i]

\* the list elements tried against a list of n venues: every index in
\* range, the first one past the end, the last venue counted from the end,
\* the first one before the start, a fraction in range and a string
Elems(n) ==
    { Int_(i) : i \in (0..n) \cup {-1, -(n + 1)} }
        \cup {Float_(0), [t |-> "str", v |-> 0]}

SeqsUpTo(S, k) == UNION { [1..m -> S] : m \in 0..k }

NoResponse == [kind |-> "none", ri |-> "absent", items |-> <<>>,
               reasoning |-> "absent"]

Responses(n) ==
    { [kind |-> k, ri |-> "absent", items |-> <<>>, reasoning |-> "absent"]
        : k \in {"raise", "badjson", "nonobject"} }
    \cup
    { [kind |-> "object", ri |-> r, items |-> <<>>, reasoning |-> "dict"]
        : r \in {"absent", "noniter", "emptyiter"} }
    \cup
    { [kind |-> "object", ri |-> "list", items |-> s, reasoning |-> "dict"]
        : s \in SeqsUpTo(Elems(n), MaxOrder) }
    \cup
    { [kind |-> "object", ri |-> "list", items |-> s, reasoning |-> r]
        : s \in SeqsUpTo(Elems(n), 1), r \in {"absent", "nondict", "nulls"} }

\* first rank of enumerate(ranked_indices, 1)
FirstRank == 1

\* InRange with the bound one too low: idx < len(places) - 1
InRangeShort(idx, n) == idx.v < n - 1

\* idx < len(places): a string does not compare with an integer
InRange(idx, n) == idx.v < n

\* places[idx]: a negative index counts from the end
Subscript(idx, n) == IF idx.v >= 0 THEN idx.v + 1 ELSE n + idx.v + 1

\* reasoning.get(str(idx), 'No reasoning provided')
ReasonFor(reasoning, idx) ==
    IF reasoning = "dict" THEN [src |-> "delegate", v |-> idx.v]
    ELSE IF reasoning = "nulls" THEN [src |-> "null", v |-> 0]
    ELSE [src |-> "default", v |-> 0]

(* The loop that builds ranked_places, from the element at position k on.  *)
(* err is set when an element raises: a string compared with an integer    *)
(* (TypeError), a fraction used as a subscript (TypeError), a negative     *)
(* index before the start of the list (IndexError), or .get on a reasoning *)
(* that is no object (AttributeError).                                     *)
RECURSIVE BuildRanked(_, _, _, _)
BuildRanked(ps, items, reasoning, k) ==
    IF k > Len(items) THEN [err |-> FALSE, out |-> <<>>]
    ELSE LET idx == items[k]
             n == Len(ps)
             rest == BuildRanked(ps, items, reasoning, k + 1)
         IN  IF idx.t = "str" THEN [err |-> TRUE, out |-> <<>>]
             ELSE IF ~InRange(idx, n) THEN rest
             ELSE IF idx.t = "float" THEN [err |-> TRUE, out |-> <<>>]
             ELSE IF Subscript(idx, n) < 1 THEN [err |-> TRUE, out |-> <<>>]
             ELSE IF reasoning = "nondict" THEN [err |-> TRUE, out |-> <<>>]
             ELSE IF rest.err THEN rest
             ELSE [err |-> FALSE,
                   out |-> <<Ranked(ps[Subscript(idx, n)],
                                    k - 1 + FirstRank,
                                    ReasonFor(reasoning, idx), None)>>
                           \o rest.out]

\* the try block: the exception raised in it, or the list it returns
TryRankWithAi(ps, resp) ==
    CASE resp.kind # "object" -> [err |-> TRUE, out |-> <<>>]
      [] resp.kind = "object" /\ resp.ri = "noniter" ->
            [err |-> TRUE, out |-> <<>>]
      [] resp.kind = "object" /\ resp.ri \in {"absent", "emptyiter"} ->
            [err |-> FALSE, out |-> <<>>]
      [] OTHER -> BuildRanked(ps, resp.items, resp.reasoning, 1)

\* RankWithAi whose handler misses an exception raised by the request itself
RankWithAiUncaught(ps, resp) ==
    LET t == TryRankWithAi(ps, resp)
    IN  IF resp.kind = "raise"
        THEN [raised |-> TRUE, path |-> "none", ret |-> <<>>]
        ELSE IF t.err
        THEN [raised |-> FALSE, path |-> "fallback", ret |-> FallbackRanking(ps)]
        ELSE [raised |-> FALSE, path |-> "ai", ret |-> t.out]

\* except Exception: the fallback ranking
RankWithAi(ps, resp) ==
    LET t == TryRankWithAi(ps, resp)
    IN  IF t.err
        THEN [raised |-> FALSE, path |-> "fallback", ret |-> FallbackRanking(ps)]
        ELSE [raised |-> FALSE, path |-> "ai", ret |-> t.out]

---------------------------------------------------------------------------
(* utils/session_manager.py: the memory bank.  A memory bank is what        *)
(* json.load made of the memory file, or the default structure:            *)
(*   shape "bank"    an object with the four keys                          *)
(*         "object"  an object without them, such as {}                    *)
(*         "array"   a list, such as []                                    *)
(* user_preferences maps a key to its value or to "unset";                 *)
(* frequent_locations maps a location to its count; an entry of            *)
(* search_history is told from the others by the time it was recorded.     *)

\* the locations a user types; geocode finds each of them at one place
Locations == {"cn tower", "yorkdale"}

\* frequent_locations = {}: a location that is absent counts 0
NoLocations == [l \in Locations |-> 0]

PrefKeys ==
    {"priority", "likes_quiet", "likes_popular", "price_preference",
     "quality_focused"}

NoPrefs == [k \in PrefKeys |-> "unset"]

\* the default memory structure of _load_memory
DefaultMemory ==
    [shape |-> "bank", user_preferences |-> NoPrefs,
     frequent_locations |-> NoLocations, search_history |-> <<>>,
     total_searches |-> 0]

\* JSON of another shape
OtherShape(s) ==
    [shape |-> s, user_preferences |-> NoPrefs,
     frequent_locations |-> NoLocations, search_history |-> <<>>,
     total_searches |-> 0]

\* the file: missing, unreadable, not JSON, or JSON with the value it holds
NoFile == [kind |-> "missing", value |-> DefaultMemory]
File(kind, value) == [kind |-> kind, value |-> value]

\* _load_memory: the parsed file whatever its shape; the default structure
\* when the file is missing, cannot be opened or cannot be parsed
LoadMemory(file) ==
    IF file.kind = "json" THEN file.value ELSE DefaultMemory

\* _save_memory: json.dump into the file; a file that cannot be opened for
\* writing stays as it is and the exception is swallowed
SaveMemory(file, bank) ==
    IF file.kind = "unreadable" THEN file ELSE File("json", bank)

\* what subscripting memory_bank with one of the four keys raises
SubscriptError(bank) ==
    CASE bank.shape = "bank" -> "none"
      [] bank.shape = "object" -> "KeyError"
      [] OTHER -> "TypeError"

\* update_preference, up to the save
UpdatePreference(bank, key, value) ==
    IF bank.shape # "bank" THEN [exc |-> SubscriptError(bank), bank |-> bank]
    ELSE [exc |-> "none",
          bank |-> [bank EXCEPT !.user_preferences[key] = value]]

\* get_preference
GetPreference(bank, key, default) ==
    IF bank.user_preferences[key] = "unset" THEN default
    ELSE bank.user_preferences[key]

\* record_location, up to the save
RecordLocation(bank, location) ==
    IF bank.shape # "bank" THEN [exc |-> SubscriptError(bank), bank |-> bank]
    ELSE [exc |-> "none",
          bank |-> [bank EXCEPT !.frequent_locations[location] = @ + 1]]

\* the last searches record_search keeps
HistoryCap == 10

\* search_history[-10:]
LastTen(history) ==
    IF Len(history) > HistoryCap
    THEN SubSeq(history, Len(history) - HistoryCap + 1, Len(history))
    ELSE history

\* record_search, up to the save; entry is the dictionary it appends
RecordSearch(bank, entry) ==
    IF bank.shape # "bank" THEN [exc |-> SubscriptError(bank), bank |-> bank]
    ELSE [exc |-> "none",
          bank |-> [bank EXCEPT
                      !.total_searches = @ + 1,
                      !.search_history = LastTen(Append(@, entry))]]

\* get_memory_summary raises what its first subscript raises
GetMemorySummary(bank) == SubscriptError(bank)

---------------------------------------------------------------------------
(* utils/refinement_helper.py and main.py: preferences *)

\* what the user can type at "Choose (1-4)"
PreferenceChoices == {"1", "2", "3", "4", ""}

\* preference_map.get(choice, {'priority': 'balanced'}), in the order of
\* the dictionary's keys
PreferenceMap(choice) ==
    CASE choice = "1" -> <<<<"priority", "quiet">>, <<"likes_quiet", "true">>>>
      [] choice = "2" ->
            <<<<"priority", "popular">>, <<"likes_popular", "true">>>>
      [] choice = "3" ->
            <<<<"priority", "cheap">>, <<"price_preference", "low">>>>
      [] choice = "4" ->
            <<<<"priority", "quality">>, <<"quality_focused", "true">>>>
      [] OTHER -> <<<<"priority", "balanced">>>>

\* for key, value in pref.items(): session.update_preference(key, value)
RECURSIVE UpdateAll(_, _)
UpdateAll(bank, pairs) ==
    IF pairs = <<>> THEN [exc |-> "none", bank |-> bank]
    ELSE LET first == UpdatePreference(bank, Head(pairs)[1], Head(pairs)[2])
         IN  IF first.exc # "none" THEN first
             ELSE UpdateAll(first.bank, Tail(pairs))

\* user_prefs of main.py, from an intact memory bank
UserPrefs(bank) ==
    [priority |-> GetPreference(bank, "priority", "balanced"),
     likes_quiet |-> GetPreference(bank, "likes_quiet", "false"),
     price_preference |-> GetPreference(bank, "price_preference", "moderate")]

NoUserPrefs ==
    [priority |-> "unset", likes_quiet |-> "unset",
     price_preference |-> "unset"]

MemIdle ==
    /\ memory_file = NoFile
    /\ memory_bank = DefaultMemory
    /\ manager = "new"
    /\ memExc = "none"
    /\ loaded = DefaultMemory
    /\ recorded = <<>>
    /\ latest = "none"
    /\ user_prefs = NoUserPrefs

---------------------------------------------------------------------------
(* agents/ranking_agent.py: rank_places, as the caller and the two         *)
(* external collaborators see it.  The agent is built with a travel-time   *)
(* tool, as main.py and app.py build it.                                   *)

\* IsEmptyInput with the early return missing
IsEmptyInputNever(ps) == FALSE

\* if not places
IsEmptyInput(ps) == Len(ps) = 0

ScoreIdle == /\ sVenue = None /\ sScore = None
SortIdle == /\ tList = <<>> /\ tDone = FALSE /\ tOut = <<>>

\* a coordinate of whole degrees, as the floats the tools are given
Coord(lat, lng) == [lat |-> FromInt(lat), lng |-> FromInt(lng)]

\* two people at the midpoint, all on the equator at the prime meridian
SamePlaces ==
    [coord1 |-> Coord(0, 0), coord2 |-> Coord(0, 0), midpoint |-> Coord(0, 0)]

FairIdle ==
    /\ fa = 0 /\ fb = 0 /\ fPlaces = SamePlaces
    /\ fTime = None /\ fDist = None

MidIdle ==
    /\ coord1 = Coord(0, 0) /\ coord2 = Coord(0, 0)
    /\ mode1 = "transit" /\ mode2 = "transit"
    /\ mWeighted = NoMidpoint /\ mSent = "none"

\* no distance yet: a float that no call returns
NoDistance == [raised |-> FALSE, km |-> Float(TRUE, <<>>, 0)]

DistIdle ==
    /\ pointA = [lat |-> 0, lng |-> 0] /\ pointB = [lat |-> 0, lng |-> 0]
    /\ dSelf = NoDistance /\ dThere = NoDistance /\ dBack = NoDistance

FrameIdle ==
    /\ heap = <<>> /\ callerList = <<>> /\ held = <<>> /\ heldPaths = <<>>

\* a geocode result that is not there, or not a success
NoCoords == [success |-> FALSE, lat |-> Zero, lng |-> Zero]

\* session_state = {}: a key that is absent holds "" or NoCoords
EmptySession ==
    [location_1 |-> "", location_2 |-> "", mode_1 |-> "", mode_2 |-> "",
     place_type |-> "", coords_1 |-> NoCoords, coords_2 |-> NoCoords,
     midpoint |-> NoMidpoint]

\* main() before its first step: a new SessionManager, an empty memory bank
MainStart ==
    /\ flow = "loop"
    /\ session = EmptySession
    /\ steps = <<>>
    /\ midpoint = NoMidpoint
    /\ flowExc = "none"

RankInit ==
    /\ pc = "idle"
    /\ places = <<>>
    /\ pwt = <<>>
    /\ response = NoResponse
    /\ result = <<>>
    /\ path = "none"
    /\ exc = "none"
    /\ oracleCalls = 0
    /\ delegateCalls = 0
    /\ distance_matrix_tool = TRUE
    /\ oracleLog = <<>>

Init ==
    /\ RankInit
    /\ MemIdle
    /\ DistIdle
    /\ FairIdle
    /\ ScoreIdle
    /\ SortIdle
    /\ MidIdle
    /\ MainStart
    /\ FrameIdle

\* a caller calls rank_places(ps, ...) on an agent built with a distance
\* matrix tool or without one: the empty list returns at once
Call ==
    /\ pc = "idle"
    /\ distance_matrix_tool' \in BOOLEAN
    /\ \E ps \in VenueLists :
        /\ places' = ps
        /\ pc' = IF IsEmptyInput(ps) THEN "done"
                 ELSE IF Len(ps) = 0 THEN "delegate" ELSE "enrich"
    /\ pwt' = <<>>
    /\ response' = NoResponse
    /\ result' = <<>>
    /\ path' = "none"
    /\ exc' = "none"
    /\ oracleCalls' = 0
    /\ delegateCalls' = 0
    /\ oracleLog' = <<>>
    /\ UNCHANGED <<fairVars, scoreVars, sortVars, midVars, mainVars, frameVars,
            distVars, memVars>>

\* one get_travel_time call of compare_travel_times: the venue it was the
\* destination of (position in the caller's list), the person whose origin
\* it started from, and whether the oracle's answer was a success
Measure(venue, person, success) ==
    [venue |-> venue, person |-> person, success |-> success]

\* places_with_travel.append(place_copy)
AppendCopyInFront(list, copy) == <<copy>> \o list

AppendCopy(list, copy) == Append(list, copy)

\* travel_info = None: no tool to ask
NoTravelInfo ==
    [raised |-> FALSE, success |-> FALSE, fairness_ratio |-> 0,
     text1 |-> None, text2 |-> None, time_difference_minutes |-> 0]

\* one pass of the enrichment loop: with a tool, compare_travel_times asks
\* the oracle twice; without one nothing is asked; then the venue's copy is
\* appended
Enrich ==
    /\ pc = "enrich"
    /\ IF distance_matrix_tool
       THEN \E time1 \in Measurements, time2 \in Measurements :
            LET info == CompareTravelTimes(time1, time2)
                place == places[Len(pwt) + 1]
            IN  /\ oracleCalls' = oracleCalls + 2
                /\ oracleLog' = oracleLog \o
                       <<Measure(Len(pwt) + 1, 1, time1.success),
                         Measure(Len(pwt) + 1, 2, time2.success)>>
                /\ IF info.raised
                   THEN /\ pc' = "raised"
                        /\ exc' = "ZeroDivisionError"
                        /\ pwt' = pwt
                   ELSE /\ pwt' = AppendCopy(pwt, EnrichPlace(place, info))
                        /\ pc' = IF Len(pwt) + 1 = Len(places)
                                 THEN "delegate" ELSE "enrich"
                        /\ exc' = exc
       ELSE /\ pwt' = AppendCopy(pwt, EnrichPlace(places[Len(pwt) + 1],
                                                  NoTravelInfo))
            /\ pc' = IF Len(pwt) + 1 = Len(places)
                     THEN "delegate" ELSE "enrich"
            /\ UNCHANGED <<oracleCalls, oracleLog, exc>>
    /\ UNCHANGED <<places, response, result, path, delegateCalls,
                   distance_matrix_tool,
                   fairVars, scoreVars, sortVars, midVars, mainVars,
                   frameVars, distVars, memVars>>

\* _rank_with_ai: one request to the delegate, then the ranked list
AskDelegate ==
    /\ pc = "delegate"
    /\ \E resp \in Responses(Len(pwt)) :
        LET r == RankWithAi(pwt, resp)
        IN  /\ response' = resp
            /\ delegateCalls' = delegateCalls + 1
            /\ IF r.raised
               THEN /\ pc' = "raised"
                    /\ exc' = "Exception"
                    /\ result' = result
                    /\ path' = path
               ELSE /\ pc' = "done"
                    /\ exc' = exc
                    /\ result' = r.ret
                    /\ path' = r.path
    /\ UNCHANGED <<places, pwt, oracleCalls, oracleLog, distance_matrix_tool,
                   fairVars, scoreVars, sortVars, midVars, mainVars,
                   frameVars, distVars, memVars>>

\* the caller takes the list (or the exception) and may call again
Return ==
    /\ pc \in {"done", "raised"}
    /\ pc' = "idle"
    /\ places' = <<>>
    /\ pwt' = <<>>
    /\ response' = NoResponse
    /\ result' = <<>>
    /\ path' = "none"
    /\ exc' = "none"
    /\ oracleCalls' = 0
    /\ delegateCalls' = 0
    /\ oracleLog' = <<>>
    /\ UNCHANGED <<distance_matrix_tool, fairVars, scoreVars, sortVars,
                   midVars, mainVars, frameVars, distVars, memVars>>

Next == Call \/ Enrich \/ AskDelegate \/ Return

Spec == Init /\ [][Next]_vars

---------------------------------------------------------------------------
(* The fairness ratio on its own: compare_travel_times on two travel times *)
(* fa, fb of whole minutes, and calculate_distance_from_midpoint on two    *)
(* coordinates and a midpoint.  Neither computation reads what the other   *)
(* is given: the travel times vary beside three equal places, the places   *)
(* beside two travel times of a minute.                                    *)

Raised == [t |-> "raised", v |-> 0]

\* two measurements that are far from the small ones and close to each
\* other (a 3 h 21 min and a 3 h 22 min journey)
FarMeasures == {201, 202}

\* the travel times compare_travel_times is given
Measures == (0..MaxMeasure) \cup FarMeasures

\* The places calculate_distance_from_midpoint is given: on the equator at
\* the prime meridian and half a degree north of there, and the two
\* points (8, 0) and (-8, 180), which lie opposite each other on the
\* globe.
FairPoints ==
    {Coord(0, 0), [lat |-> Literal(1, 2), lng |-> FromInt(0)],
     Coord(8, 0), Coord(0 - 8, 180)}

FairInit ==
    /\ fa \in Measures
    /\ fb \in Measures
    /\ fPlaces \in [coord1 : FairPoints, coord2 : FairPoints,
                    midpoint : FairPoints]
    /\ fPlaces = SamePlaces \/ (fa = 1 /\ fb = 1)
    /\ fTime = None
    /\ fDist = None
    /\ RankInit
    /\ MemIdle
    /\ DistIdle
    /\ FrameIdle
    /\ MainStart
    /\ MidIdle
    /\ SortIdle
    /\ ScoreIdle

\* compare_travel_times on two successful measurements
CompareTimes ==
    /\ fTime = None
    /\ LET info == CompareTravelTimes(Measured(60 * fa), Measured(60 * fb))
       IN  fTime' = IF info.raised THEN Raised ELSE Num(info.fairness_ratio)
    /\ UNCHANGED <<fa, fb, fPlaces, fDist, rankVars, scoreVars, sortVars,
                   midVars, mainVars, frameVars, distVars, memVars>>

\* calculate_distance_from_midpoint on two coordinates and a midpoint
DistanceFromMidpoint ==
    /\ fDist = None
    /\ \E out \in CalculateDistanceFromMidpoint(fPlaces.coord1, fPlaces.coord2,
                                                fPlaces.midpoint) :
          fDist' = IF out.raised THEN Raised ELSE out
    /\ UNCHANGED <<fa, fb, fPlaces, fTime, rankVars, scoreVars, sortVars,
                   midVars, mainVars, frameVars, distVars, memVars>>

FairNext == CompareTimes \/ DistanceFromMidpoint

SpecFair == FairInit /\ [][FairNext]_vars

---------------------------------------------------------------------------
(* The fallback score on its own: _fallback_ranking on a list of one       *)
(* enriched venue.                                                         *)

ScoreVenues ==
    { [name |-> 1, rating |-> r, user_ratings_total |-> n, open_now |-> o,
       travel_fairness |-> f, time_person1 |-> None, time_person2 |-> None,
       time_difference_min |-> None]
        : r \in {Str, Num(0), Num(39), Num(45), Num(50)},
          n \in {0, 45, 249, 250, 251, 320},
          o \in {"true", "false", "null"},
          f \in {None, Num(0), Num(33), Num(80), Num(100)} }

ScoreInit ==
    /\ sVenue \in ScoreVenues
    /\ sScore = None
    /\ RankInit
    /\ MemIdle
    /\ DistIdle
    /\ FrameIdle
    /\ MainStart
    /\ MidIdle
    /\ SortIdle
    /\ FairIdle

ScoreVenue ==
    /\ sScore = None
    /\ sScore' = FallbackRanking(<<sVenue>>)[1].score
    /\ UNCHANGED <<sVenue, rankVars, fairVars, sortVars, midVars, mainVars,
                   frameVars, distVars, memVars>>

ScoreNext == ScoreVenue

SpecScore == ScoreInit /\ [][ScoreNext]_vars

---------------------------------------------------------------------------
(* The fallback order on its own: _fallback_ranking on a list of enriched  *)
(* venues, several of which have the same score.                           *)

\* the kinds of venue in the lists: kinds 1, 2 and 3 score 80.0 in three
\* different ways, kind 4 scores 64.0, kind 5 scores 87.5
SortKinds == 1..5

SortKind(k, name) ==
    LET plain(r, n, o) ==
            EnrichPlace([name |-> name, rating |-> Num(r),
                         user_ratings_total |-> n, open_now |-> o],
                        CompareTravelTimes(Failure, Failure))
    IN  CASE k = 1 -> plain(45, 320, "true")
          [] k = 2 -> plain(45, 250, "true")
          [] k = 3 -> plain(50, 200, "true")
          [] k = 4 -> plain(39, 850, "false")
          [] OTHER ->
                EnrichPlace([name |-> name, rating |-> Num(48),
                             user_ratings_total |-> 45, open_now |-> "true"],
                            CompareTravelTimes(Measured(300), Measured(300)))

\* the lists handed in: the venue at position i is named i
SortLists ==
    UNION { { [i \in 1..n |-> SortKind(ks[i], i)] : ks \in [1..n -> SortKinds] }
            : n \in 0..MaxVenues }

SortInit ==
    /\ tList \in SortLists
    /\ tDone = FALSE
    /\ tOut = <<>>
    /\ RankInit
    /\ MemIdle
    /\ DistIdle
    /\ FrameIdle
    /\ MainStart
    /\ MidIdle
    /\ FairIdle
    /\ ScoreIdle

RankFallback ==
    /\ ~tDone
    /\ tDone' = TRUE
    /\ tOut' = FallbackRanking(tList)
    /\ UNCHANGED <<tList, rankVars, fairVars, scoreVars, midVars, mainVars,
                   frameVars, distVars, memVars>>

SortNext == RankFallback

SpecSort == SortInit /\ [][SortNext]_vars
---------------------------------------------------------------------------
(* The midpoint on its own: calculate_weighted_midpoint on two coordinates *)
(* and two mode strings, and the request get_travel_time builds for        *)
(* person 1's mode.                                                        *)

\* The coordinates of the model.  Latitudes: 1.0, the float next above it
\* (1.0000000000000002) and the smallest float above 0 (5e-324, a subnormal
\* one); longitudes: the whole degrees west down to MaxCoord.
Latitudes ==
    {FromInt(1), Float(FALSE, BigAdd(FromInt(1).m, <<1>>), 0 - 52),
     Float(FALSE, <<1>>, MinExponent)}

Longitudes == { FromInt(0 - n) : n \in 1..MaxCoord }

MidInit ==
    /\ coord1 \in [lat : Latitudes, lng : Longitudes]
    /\ coord2 \in [lat : Latitudes, lng : Longitudes]
    /\ mode1 \in ModeInputs
    /\ mode2 \in ModeInputs
    /\ mWeighted = NoMidpoint
    /\ mSent = "none"
    /\ RankInit
    /\ MemIdle
    /\ DistIdle
    /\ FrameIdle
    /\ MainStart
    /\ FairIdle
    /\ ScoreIdle
    /\ SortIdle

WeightedMidpoint ==
    /\ mWeighted = NoMidpoint
    /\ mWeighted' \in CalculateWeightedMidpoint(coord1, coord2, mode1, mode2)
    /\ UNCHANGED <<coord1, coord2, mode1, mode2, mSent, rankVars, fairVars,
                   scoreVars, sortVars, mainVars, frameVars, distVars,
                   memVars>>

\* get_travel_time from person 1's coordinate: params['mode']
GetTravelTime ==
    /\ mSent = "none"
    /\ mSent' = Lower(mode1)
    /\ UNCHANGED <<coord1, coord2, mode1, mode2, mWeighted, rankVars,
                   fairVars, scoreVars, sortVars, mainVars, frameVars,
                   distVars, memVars>>

MidNext == WeightedMidpoint \/ GetTravelTime

SpecMid == MidInit /\ [][MidNext]_vars

---------------------------------------------------------------------------
(* tools/midpoint_tools.py: the great-circle distance between two          *)
(* coordinates, measured from each to itself and both ways between them.   *)
(* Latitudes are multiples of eight degrees, longitudes are on the prime   *)
(* meridian or opposite it, so that the two can be as far apart as two     *)
(* points of the globe get: for some such pairs a is 1 or just below it,   *)
(* for (8, 0) and (-8, 180) the library's rounding can bring it to the     *)
(* float above 1.                                                          *)

MaxLatSteps == 2

\* latitudes by eights from the equator, on the prime meridian or opposite it
Points ==
    { [lat |-> 8 * k, lng |-> lng] :
          k \in { j \in (0 - MaxLatSteps)..MaxLatSteps : Abs(8 * j) <= 90 },
          lng \in {0, 180} }

DistInit ==
    /\ pointA \in Points
    /\ pointB \in Points
    /\ dSelf = NoDistance /\ dThere = NoDistance /\ dBack = NoDistance
    /\ RankInit
    /\ MemIdle
    /\ FairIdle
    /\ ScoreIdle
    /\ SortIdle
    /\ MidIdle
    /\ MainStart
    /\ FrameIdle

\* _calculate_distance, called three times.  A call that raises leaves the
\* later ones unmade.  The call back makes the library calls of the call
\* there, on the same arguments or on their negatives and in another
\* order; the library gives the same float for the same argument, its
\* sine and cosine are odd and even to the last bit, and so the call back
\* has the outcome the call there had, if that is one it can have.
CalculateDistances ==
    /\ dSelf = NoDistance
    /\ \E a \in {Coord(pointA.lat, pointA.lng)},
          b \in {Coord(pointB.lat, pointB.lng)} :
       \E self \in CalculateDistance(a.lat, a.lng, a.lat, a.lng),
          there \in CalculateDistance(a.lat, a.lng, b.lat, b.lng),
          backs \in {CalculateDistance(b.lat, b.lng, a.lat, a.lng)} :
       \E back \in IF there \in backs THEN {there} ELSE backs :
          /\ dSelf' = self
          /\ dThere' = IF self.raised THEN NoDistance ELSE there
          /\ dBack' = IF self.raised \/ there.raised THEN NoDistance
                      ELSE back
    /\ UNCHANGED <<pointA, pointB, rankVars, fairVars, scoreVars, sortVars,
                   midVars, mainVars, frameVars, memVars>>

DistNext == CalculateDistances

SpecDist == DistInit /\ [][DistNext]_vars

---------------------------------------------------------------------------
(* utils/session_manager.py: one SessionManager over a memory file, and    *)
(* the memory operations its callers make on it in any order.  The file is *)
(* missing, unreadable, not JSON, JSON of another shape, or the memory     *)
(* bank an earlier run saved.                                              *)

\* record_search calls made on one SessionManager
MaxSearches == 12

\* the entry a search appends: the session's locations and place type and
\* the time of the call, which tells it from every other entry
Entry(n) == [timestamp |-> n]

\* the memory bank of an earlier run: a full history, more searches than
\* the history keeps
SavedMemory ==
    [DefaultMemory EXCEPT
        !.search_history = [k \in 1..HistoryCap |-> Entry(k - HistoryCap)],
        !.total_searches = 2 * HistoryCap + 5]

MemoryFiles ==
    {NoFile, File("unreadable", DefaultMemory), File("invalid", DefaultMemory),
     File("json", OtherShape("object")), File("json", OtherShape("array")),
     File("json", DefaultMemory), File("json", SavedMemory)}

MemInit ==
    /\ memory_file \in MemoryFiles
    /\ memory_bank = DefaultMemory
    /\ manager = "new"
    /\ memExc = "none"
    /\ loaded = DefaultMemory
    /\ recorded = <<>>
    /\ latest = "none"
    /\ user_prefs = NoUserPrefs
    /\ RankInit
    /\ FairIdle
    /\ ScoreIdle
    /\ SortIdle
    /\ MidIdle
    /\ MainStart
    /\ FrameIdle
    /\ DistIdle

\* SessionManager(memory_file)
Construct ==
    /\ manager = "new"
    /\ manager' = "ready"
    /\ memory_bank' = LoadMemory(memory_file)
    /\ loaded' = LoadMemory(memory_file)
    /\ UNCHANGED <<memory_file, memExc, recorded, latest, user_prefs,
                   rankVars, fairVars, scoreVars, sortVars, midVars,
                   mainVars, frameVars, distVars>>

\* the end of a memory operation that ends in _save_memory: the bank it
\* left, saved unless it raised
Finish(done) ==
    /\ memory_bank' = done.bank
    /\ memExc' = done.exc
    /\ manager' = IF done.exc = "none" THEN "ready" ELSE "raised"
    /\ memory_file' = IF done.exc = "none"
                      THEN SaveMemory(memory_file, done.bank)
                      ELSE memory_file

\* session.record_search()
RecordSearchCall ==
    /\ manager = "ready"
    /\ Len(recorded) < MaxSearches
    /\ LET entry == Entry(Len(recorded) + 1)
       IN  /\ recorded' = Append(recorded, entry)
           /\ Finish(RecordSearch(memory_bank, entry))
    /\ UNCHANGED <<loaded, latest, user_prefs, rankVars, fairVars, scoreVars,
                   sortVars, midVars, mainVars, frameVars, distVars>>

\* session.record_location(location)
RecordLocationCall ==
    /\ manager = "ready"
    /\ \E location \in Locations :
        /\ memory_bank.frequent_locations[location] < MaxCalls
        /\ Finish(RecordLocation(memory_bank, location))
    /\ UNCHANGED <<loaded, recorded, latest, user_prefs, rankVars, fairVars,
                   scoreVars, sortVars, midVars, mainVars, frameVars,
                   distVars>>

\* session.get_memory_summary(): it reads the bank and saves nothing
MemorySummary ==
    /\ manager = "ready"
    /\ memExc' = GetMemorySummary(memory_bank)
    /\ manager' = IF GetMemorySummary(memory_bank) = "none" THEN "ready"
                  ELSE "raised"
    /\ UNCHANGED <<memory_bank, memory_file, loaded, recorded, latest,
                   user_prefs, rankVars, fairVars, scoreVars, sortVars,
                   midVars, mainVars, frameVars, distVars>>

\* choice 3 of the refinement menu: the user picks what matters most and
\* every key of that preference is saved
SetPreference ==
    /\ manager = "ready"
    /\ \E choice \in PreferenceChoices :
        LET pref == PreferenceMap(choice)
        IN  /\ latest' = pref[1][2]
            /\ Finish(UpdateAll(memory_bank, pref))
    /\ user_prefs' = NoUserPrefs
    /\ UNCHANGED <<loaded, recorded, rankVars, fairVars, scoreVars, sortVars,
                   midVars, mainVars, frameVars, distVars>>

\* step 5 reads the preferences it passes to rank_places: three
\* get_preference calls, which save nothing
BuildUserPrefs ==
    /\ manager = "ready"
    /\ user_prefs' = IF memory_bank.shape = "bank"
                     THEN UserPrefs(memory_bank) ELSE NoUserPrefs
    /\ memExc' = SubscriptError(memory_bank)
    /\ manager' = IF SubscriptError(memory_bank) = "none" THEN "ready"
                  ELSE "raised"
    /\ UNCHANGED <<memory_bank, memory_file, loaded, recorded, latest,
                   rankVars, fairVars, scoreVars, sortVars, midVars,
                   mainVars, frameVars, distVars>>

MemNext ==
    \/ Construct
    \/ RecordSearchCall
    \/ RecordLocationCall
    \/ MemorySummary
    \/ SetPreference
    \/ BuildUserPrefs

SpecMemory == MemInit /\ [][MemNext]_vars

---------------------------------------------------------------------------
(* main.py: the search loop of main(), from its first prompt on.  The user *)
(* types two locations, two travel modes and a place type; the location    *)
(* delegate and the geocoder answer or fail.                               *)

\* what the user can type at a location prompt and at a mode prompt
LocationInputs == Locations \cup {""}
ModePrompts == {"", "Walking", "driving", "teleport"}
PlacePrompts == {"", "park"}

\* input(...).strip().lower() or default
Prompted(typed, default) == IF Lower(typed) = "" THEN default ELSE Lower(typed)

\* where the geocoder finds a location
Geocoded(location) ==
    IF location = "cn tower"
    THEN [success |-> TRUE, lat |-> FromInt(1), lng |-> FromInt(0 - 2)]
    ELSE [success |-> TRUE, lat |-> FromInt(2), lng |-> FromInt(0 - 1)]

\* get_session_summary()['has_locations']
HasLocations == session.location_1 # "" /\ session.location_2 # ""

\* clear_session(): session_state = {}
ClearSession == EmptySession

\* what the user can answer to "Use previous locations? (y/n)"
PreviousAnswers == {"y", "n"}

\* the top of the loop: with no locations in the session it goes on to the
\* prompts.  Otherwise it offers the previous search: on "y" the locations,
\* modes and coordinates of the session are used and the flow skips to
\* step 3; on any other answer the session is cleared and the prompts
\* follow.
LoopTop ==
    /\ flow = "loop"
    /\ IF HasLocations
       THEN \E use_previous \in PreviousAnswers :
            IF use_previous = "y"
            THEN flow' = "midpoint" /\ session' = session
            ELSE flow' = "input" /\ session' = ClearSession
       ELSE flow' = "input" /\ session' = session
    /\ UNCHANGED <<steps, midpoint, flowExc, rankVars, fairVars, scoreVars,
                   sortVars, midVars, frameVars, distVars, memVars>>

\* the five prompts; both locations are required; session.store of what
\* was typed, then session.record_location of each location, each of which
\* saves the memory bank
ReadInput ==
    /\ flow = "input"
    /\ \E location_1 \in LocationInputs, location_2 \in LocationInputs,
          typed_1 \in ModePrompts, typed_2 \in ModePrompts,
          typed_place \in PlacePrompts :
          IF location_1 = "" \/ location_2 = ""
          THEN /\ flow' = "returned"
               /\ UNCHANGED <<session, memory_bank, memory_file>>
          ELSE /\ flow' = "validate"
               /\ session' =
                    [session EXCEPT !.location_1 = location_1,
                                    !.location_2 = location_2,
                                    !.mode_1 = Prompted(typed_1, "transit"),
                                    !.mode_2 = Prompted(typed_2, "transit"),
                                    !.place_type = Prompted(typed_place, "cafe")]
               /\ LET first == RecordLocation(memory_bank, location_1).bank
                      second == RecordLocation(first, location_2).bank
                  IN  /\ memory_bank' = second
                      /\ memory_file' =
                            SaveMemory(SaveMemory(memory_file, first), second)
    /\ UNCHANGED <<steps, midpoint, flowExc, manager, memExc, loaded,
                   recorded, latest, user_prefs, rankVars, fairVars,
                   scoreVars, sortVars, midVars, frameVars, distVars>>

\* step 1: location_validator for both locations; generate_content answers
\* or raises, and nothing catches what it raises
Validate ==
    /\ flow = "validate"
    /\ steps' = Append(steps, "validate")
    /\ \E answered \in BOOLEAN :
          IF answered
          THEN flow' = "geocode" /\ flowExc' = flowExc
          ELSE flow' = "raised" /\ flowExc' = "DelegateError"
    /\ UNCHANGED <<session, midpoint, rankVars, fairVars, scoreVars,
                   sortVars, midVars, frameVars, distVars, memVars>>

\* What the geocoder's answer makes of geocode(): a result ("found"), a
\* failure that geocode() reports with success False (no result, a bad
\* status, a request that failed), or a body geocode() cannot read: an
\* object without 'status', or a result without 'geometry' or
\* 'formatted_address' ("nokey": KeyError), or null ("null": TypeError).
\* geocode() catches RequestException only.
GeocoderAnswers == {"found", "failed", "nokey", "null"}

\* the exception geocode() lets through, if any
GeocodeError(answer) ==
    CASE answer = "nokey" -> "KeyError"
      [] answer = "null" -> "TypeError"
      [] OTHER -> "none"

\* step 2: geocode location 1, then location 2; an exception of either call
\* ends main(); main returns when either result is a failure
Geocode ==
    /\ flow = "geocode"
    /\ steps' = Append(steps, "geocode")
    /\ \E answer_1 \in GeocoderAnswers, answer_2 \in GeocoderAnswers :
          IF GeocodeError(answer_1) # "none"
          THEN /\ flow' = "raised"
               /\ flowExc' = GeocodeError(answer_1)
               /\ session' = session
          ELSE IF GeocodeError(answer_2) # "none"
          THEN /\ flow' = "raised"
               /\ flowExc' = GeocodeError(answer_2)
               /\ session' = session
          ELSE IF answer_1 = "failed" \/ answer_2 = "failed"
          THEN flow' = "returned" /\ session' = session /\ flowExc' = flowExc
          ELSE /\ flow' = "midpoint"
               /\ flowExc' = flowExc
               /\ session' =
                    [session EXCEPT !.coords_1 = Geocoded(session.location_1),
                                    !.coords_2 = Geocoded(session.location_2)]
    /\ UNCHANGED <<midpoint, rankVars, fairVars, scoreVars, sortVars,
                   midVars, frameVars, distVars, memVars>>

\* step 3: midpoint_tool.find_time_fair_midpoint(...).  MidpointTool has
\* calculate_simple_midpoint, calculate_weighted_midpoint,
\* _calculate_distance and calculate_distance_from_midpoint, and no
\* find_time_fair_midpoint: the attribute lookup raises AttributeError, and
\* main() has no handler for it.
FindTimeFairMidpoint ==
    /\ flow = "midpoint"
    /\ steps' = Append(steps, "midpoint")
    /\ flow' = "raised"
    /\ flowExc' = "AttributeError"
    /\ UNCHANGED <<session, midpoint, rankVars, fairVars, scoreVars,
                   sortVars, midVars, frameVars, distVars, memVars>>

\* session = SessionManager() where no user_memory.json exists
MainMemory ==
    /\ memory_file = NoFile
    /\ memory_bank = LoadMemory(NoFile)
    /\ manager = "ready"
    /\ memExc = "none"
    /\ loaded = LoadMemory(NoFile)
    /\ recorded = <<>>
    /\ latest = "none"
    /\ user_prefs = NoUserPrefs

MainInit ==
    /\ MainStart
    /\ RankInit
    /\ MainMemory
    /\ DistIdle
    /\ FrameIdle
    /\ FairIdle
    /\ ScoreIdle
    /\ SortIdle
    /\ MidIdle

MainNext ==
    LoopTop \/ ReadInput \/ Validate \/ Geocode \/ FindTimeFairMidpoint

SpecMain == MainInit /\ [][MainNext]_vars

---------------------------------------------------------------------------
(* rank_places and the dictionaries it touches.  Every dictionary is an    *)
(* entry of heap, known by its position; a list is a sequence of           *)
(* positions.  One caller keeps its venue list and every list it was       *)
(* handed back, and calls rank_places on the same venue list again.        *)

\* DictCopy that hands back the dictionary itself
DictCopyAliased(h, id) == [heap |-> h, id |-> id]

\* dict.copy(): a new dictionary with the same keys and values
DictCopy(h, id) == [heap |-> Append(h, h[id]), id |-> Len(h) + 1]

\* for each k, in turn: c = ids[k].copy(), then c's keys are set so that it
\* holds values[k]
RECURSIVE CopyAndSet(_, _, _, _)
CopyAndSet(h, ids, values, k) ==
    IF k > Len(ids) THEN [heap |-> h, out |-> <<>>]
    ELSE LET c == DictCopy(h, ids[k])
             written == [c.heap EXCEPT ![c.id] = values[k]]
             rest == CopyAndSet(written, ids, values, k + 1)
         IN  [heap |-> rest.heap, out |-> <<c.id>> \o rest.out]

\* the dictionaries at the positions ids
Deref(h, ids) == [k \in 1..Len(ids) |-> h[ids[k]]]

\* rank_places on the list ids, the oracle answering infos[k] for venue k
\* and the delegate answering resp: the enrichment loop copies each venue
\* and sets the travel keys of the copy; the delegate path copies the
\* enriched venue of each kept index and sets rank and reasoning; the
\* fallback path copies every enriched venue, sets its score, sorts the
\* copies and sets rank and reasoning.
RankPlacesOn(h, ids, infos, resp) ==
    LET places_ == Deref(h, ids)
        enriched == CopyAndSet(h, ids,
                        [k \in 1..Len(ids) |->
                            EnrichPlace(places_[k], infos[k])], 1)
        pwt_ == enriched.out
        r == RankWithAi(Deref(enriched.heap, pwt_), resp)
    IN  IF IsEmptyInput(ids)
        THEN [heap |-> h, out |-> <<>>, path |-> "none"]
        ELSE IF r.path = "ai"
        THEN LET built == CopyAndSet(enriched.heap,
                              [k \in 1..Len(r.ret) |-> pwt_[r.ret[k].name]],
                              r.ret, 1)
             IN  [heap |-> built.heap, out |-> built.out, path |-> "ai"]
        ELSE LET scored == CopyAndSet(enriched.heap, pwt_,
                              [n \in 1..Len(pwt_) |->
                                  r.ret[CHOOSE k \in 1..Len(r.ret) :
                                            r.ret[k].name = n]], 1)
             IN  [heap |-> scored.heap,
                  out |-> [k \in 1..Len(r.ret) |-> scored.out[r.ret[k].name]],
                  path |-> "fallback"]

\* the venue lists of this model: the first one or two sample venues
FrameLists == { [i \in 1..n |-> Catalogue(i)] : n \in {1, 2} }

\* the delegate raises, or answers with a list of indices each of which is
\* a venue or one past the last venue, and a reason for each
FrameResponses(n) ==
    { resp \in Responses(n) :
        \/ resp.kind = "raise"
        \/ /\ resp.kind = "object" /\ resp.ri = "list"
           /\ resp.reasoning = "dict"
           /\ \A k \in 1..Len(resp.items) :
                 resp.items[k].t = "int" /\ resp.items[k].v \in 0..n }

\* every venue's travel times are measured (five minutes each way) or one
\* of the two measurements fails
FrameInfos(n) ==
    [1..n -> {CompareTravelTimes(Measured(300), Measured(300)),
              CompareTravelTimes(Failure, Measured(300))}]

FrameInit ==
    /\ heap \in FrameLists
    /\ callerList = [k \in 1..Len(heap) |-> k]
    /\ held = <<>>
    /\ heldPaths = <<>>
    /\ RankInit
    /\ MemIdle
    /\ DistIdle
    /\ FairIdle
    /\ ScoreIdle
    /\ SortIdle
    /\ MidIdle
    /\ MainStart

\* one whole call of rank_places on the caller's list; the caller keeps
\* the list it gets back
RankPlacesCall ==
    /\ Len(held) < MaxCalls
    /\ \E infos \in FrameInfos(Len(callerList)),
          resp \in FrameResponses(Len(callerList)) :
          LET call == RankPlacesOn(heap, callerList, infos, resp)
          IN  /\ heap' = call.heap
              /\ held' = Append(held, call.out)
              /\ heldPaths' = Append(heldPaths, call.path)
    /\ UNCHANGED <<callerList, rankVars, fairVars, scoreVars, sortVars,
                   midVars, mainVars, distVars, memVars>>

FrameNext == RankPlacesCall

SpecFrame == FrameInit /\ [][FrameNext]_vars
---------------------------------------------------------------------------
(* Properties of rank_places, under Spec *)

Returned == pc = "done"
Left == pc \in {"done", "raised"}
Asked == response.kind # "none"

\* the venues of a returned list, by name
Names(list) == [k \in 1..Len(list) |-> list[k].name]

\* the enriched venue without what ranking adds to it
Enriched(r) ==
    [name |-> r.name, rating |-> r.rating,
     user_ratings_total |-> r.user_ratings_total, open_now |-> r.open_now,
     travel_fairness |-> r.travel_fairness, time_person1 |-> r.time_person1,
     time_person2 |-> r.time_person2,
     time_difference_min |-> r.time_difference_min]

\* C1: whenever the request to the reasoning delegate raises, rank_places
\* returns normally, and what it returns is the fallback ranking of all the
\* enriched venues: no exception leaves the call.
C1_DelegateRaisesFallsBack ==
    (Left /\ response.kind = "raise") =>
        /\ Returned
        /\ exc = "none"
        /\ path = "fallback"
        /\ Len(result) = Len(places)
        /\ result = FallbackRanking(pwt)

C1_Witness ==
    /\ Returned
    /\ response.kind = "raise"
    /\ Len(places) >= 2
    /\ path = "fallback"
    /\ Len(result) = Len(places)

\* the answers the claim calls malformed
Malformed(resp) ==
    \/ resp.kind \in {"badjson", "nonobject"}
    \/ /\ resp.kind = "object"
       /\ \/ resp.ri # "list"
          \/ \E k \in 1..Len(resp.items) : resp.items[k].t # "int"

\* C2: whenever the delegate's answer is malformed (no JSON, no JSON object,
\* no ranked_indices key, or something other than a list of integers under
\* it), rank_places returns the fallback ranking of all the input venues.
C2_MalformedFallsBack ==
    (Returned /\ Malformed(response)) =>
        /\ path = "fallback"
        /\ Len(result) = Len(places)
        /\ result = FallbackRanking(pwt)

\* C4: a returned list of k venues carries the ranks 1, 2, ..., k in list
\* order, on the delegate path and on the fallback path.
C4_RanksAreOneToK ==
    Returned => \A k \in 1..Len(result) : result[k].rank = k

\* the delegate answered with a list of integers
IntegerOrder(resp) ==
    /\ resp.kind = "object"
    /\ resp.ri = "list"
    /\ resp.reasoning # "nondict"
    /\ \A k \in 1..Len(resp.items) : resp.items[k].t = "int"

IndexInRange(e, n) == e.v \in 0..(n - 1)

\* the returned indices that lie in 0..n-1, in the returned order
RECURSIVE Kept(_, _)
Kept(items, n) ==
    IF items = <<>> THEN <<>>
    ELSE IF IndexInRange(Head(items), n)
         THEN <<Head(items).v>> \o Kept(Tail(items), n)
         ELSE Kept(Tail(items), n)

\* C5: when the returned order holds indices outside 0..N-1 (too large or
\* negative), each of them is dropped: the call stays on the delegate path
\* and the returned venues are exactly the input venues at the returned
\* in-range indices.
C5_OutOfRangeDropped ==
    (/\ Returned
     /\ IntegerOrder(response)
     /\ \E k \in 1..Len(response.items) :
            ~IndexInRange(response.items[k], Len(places))) =>
        /\ path = "ai"
        /\ Names(result) =
             [k \in 1..Len(Kept(response.items, Len(places))) |->
                 pwt[Kept(response.items, Len(places))[k] + 1].name]

\* a valid order: distinct indices, each in 0..n-1
ValidOrder(resp, n) ==
    /\ IntegerOrder(resp)
    /\ \A k \in 1..Len(resp.items) : IndexInRange(resp.items[k], n)
    /\ \A j, k \in 1..Len(resp.items) :
            j # k => resp.items[j].v # resp.items[k].v

\* C6: for a valid order that covers only some of the N indices, the
\* returned list holds exactly the venues at the returned indices, in the
\* returned order and ranked 1, 2, ...; every other venue is omitted.
C6_PartialOrderKept ==
    (Returned /\ places # <<>> /\ ValidOrder(response, Len(places))) =>
        /\ path = "ai"
        /\ Len(result) = Len(response.items)
        /\ \A k \in 1..Len(result) :
            /\ Enriched(result[k]) = pwt[response.items[k].v + 1]
            /\ result[k].rank = k
        /\ \A i \in 1..Len(places) :
            (\A k \in 1..Len(response.items) : response.items[k].v # i - 1)
                => \A k \in 1..Len(result) : result[k].name # places[i].name

\* indices [2, 0] over three venues: venue 2 first, venue 0 second, no venue 1
C6_Witness ==
    /\ Returned
    /\ Len(places) = 3
    /\ response.kind = "object"
    /\ response.ri = "list"
    /\ response.items = <<Int_(2), Int_(0)>>
    /\ Names(result) = <<places[3].name, places[1].name>>
    /\ result[1].rank = 1
    /\ result[2].rank = 2

\* C7: a call with the empty venue list returns the empty list at once:
\* it never reaches the enrichment loop or the delegate, and neither the
\* travel-time oracle nor the delegate has been called.
C7_EmptyInputNoCalls ==
    (pc # "idle" /\ places = <<>>) =>
        /\ Returned
        /\ result = <<>>
        /\ oracleCalls = 0
        /\ delegateCalls = 0
        /\ ~Asked

C7_Witness ==
    /\ Returned
    /\ places = <<>>
    /\ result = <<>>
    /\ oracleCalls = 0
    /\ delegateCalls = 0

\* C8: no outcome of the oracle for one venue aborts the batch or drops the
\* venue: rank_places never ends by raising, every venue measured so far is
\* in places_with_travel at its own position, and the ranking step gets all.
C8_NoOracleOutcomeAborts ==
    /\ pc # "raised"
    /\ Len(pwt) <= Len(places)
    /\ \A i \in 1..Len(pwt) : pwt[i].name = places[i].name
    /\ (pc \in {"delegate", "done"} /\ places # <<>>)
            => Len(pwt) = Len(places)

\* a returned venue says why its travel times could not be measured: one of
\* the keys the enrichment writes holds a text
SaysWhyUnmeasured(r) ==
    \/ r.travel_fairness.t = "str"
    \/ r.time_person1.t = "str"
    \/ r.time_person2.t = "str"
    \/ r.time_difference_min.t = "str"

\* a returned venue says why the delegate did not rank it: its reasoning is
\* the failure, not a score, a delegate's reason or the placeholder
SaysWhyFallback(r) == r.ai_reasoning.src = "failure"

\* C18: a failure that rank_places recovers from leaves its reason in the
\* returned list: a venue whose travel times could not be measured (null
\* fairness) says why, and a venue ranked by the fallback because the
\* delegate failed says why.
C18_FailureReasonRecorded ==
    Returned =>
        \A k \in 1..Len(result) :
            /\ (distance_matrix_tool /\ result[k].travel_fairness = None)
                    => SaysWhyUnmeasured(result[k])
            /\ path = "fallback" => SaysWhyFallback(result[k])

---------------------------------------------------------------------------
(* Properties of the fairness ratio, under SpecFair *)

\* min(a, b) / max(a, b) to two places, for a, b not both 0
RatioOf(a, b) == Round(Min(a, b), Max(a, b), 100)

\* calculate_distance_from_midpoint has returned
DistMeasured == fDist # None /\ fDist # Raised

\* C9: the fairness ratio is total: for every pair of non-negative
\* measurements neither computation raises, and for two zeros each gives 1.0.
C9_FairnessTotal ==
    /\ fTime # Raised
    /\ fDist # Raised
    /\ (fa = 0 /\ fb = 0 /\ fTime # None) => fTime = Num(100)
    /\ (DistMeasured /\ fDist.dist1 = Zero /\ fDist.dist2 = Zero)
            => fDist.fairness_ratio = FromInt(1)

\* C10: for measurements that are not both 0 (one of them may be 0) each
\* computation gives min(a,b)/max(a,b), to the two places both report, and
\* the two give the same ratio for the same pair: what
\* calculate_distance_from_midpoint makes of the distances fa and fb is
\* what compare_travel_times makes of the travel times fa and fb.
C10_SameRatio ==
    /\ (~(fa = 0 /\ fb = 0) /\ fTime # None) =>
            /\ fTime = Num(RatioOf(fa, fb))
            /\ FairnessDist(FromInt(fa), FromInt(fb)).fairness_ratio
                   = Literal(fTime.v, 100)
    /\ (DistMeasured /\ ~(fDist.dist1 = Zero /\ fDist.dist2 = Zero)) =>
            fDist.fairness_ratio
                = RoundFloat(IF Less(fDist.dist2, fDist.dist1)
                             THEN FloatDiv(fDist.dist2, fDist.dist1)
                             ELSE FloatDiv(fDist.dist1, fDist.dist2), 100)

\* C11: for measurements a, b > 0 the reported fairness ratio lies in
\* (0, 1], so it is never 0, and it is 1.0 exactly when a = b.
C11_RatioInUnitInterval ==
    /\ (fa > 0 /\ fb > 0 /\ fTime # None) =>
            /\ fTime.t = "num" /\ fTime.v > 0 /\ fTime.v <= 100
            /\ fTime.v = 100 <=> fa = fb
    /\ (DistMeasured /\ Positive(fDist.dist1) /\ Positive(fDist.dist2)) =>
            /\ Positive(fDist.fairness_ratio)
            /\ ~Less(FromInt(1), fDist.fairness_ratio)
            /\ fDist.fairness_ratio = FromInt(1) <=> fDist.dist1 = fDist.dist2
---------------------------------------------------------------------------
(* Properties of the fallback score, under SpecScore *)

\* the claimed score, in hundredths
ClaimedScore(v) ==
      (IF v.rating.t = "num" THEN v.rating.v * 100 ELSE 0)
    + (IF v.user_ratings_total * 10 <= 2500
       THEN v.user_ratings_total * 10 ELSE 2500)
    + (IF v.travel_fairness.t = "num" THEN v.travel_fairness.v * 25 ELSE 0)
    + (IF v.open_now = "true" THEN 1000 ELSE 0)

ExampleVenue(v) ==
    /\ v.rating = Num(45)
    /\ v.user_ratings_total = 320
    /\ v.travel_fairness = Num(80)
    /\ v.open_now = "true"

\* C3: the fallback score of a venue is rating x 10 (0 when the rating is
\* no number) + min(reviews / 10, 25) + fairness x 25 (0 when unknown)
\* + 10 when open_now is true; rating 4.5, 320 reviews, fairness 0.8 and
\* open scores exactly 100.
C3_FallbackScore ==
    sScore # None =>
        /\ sScore = Num(ClaimedScore(sVenue))
        /\ ExampleVenue(sVenue) => sScore = Num(10000)

C3_Witness ==
    /\ ExampleVenue(sVenue)
    /\ sScore = Num(10000)

---------------------------------------------------------------------------
(* Properties of the fallback order, under SpecSort *)

\* where the venue named n stands in the returned list
PositionOf(n) == CHOOSE p \in 1..Len(tOut) : tOut[p].name = n

\* C12: the fallback ranking returns the venues in descending order of
\* score, and two venues with the same score stand in the order they had in
\* the input list.
C12_StableDescending ==
    tDone =>
        /\ Len(tOut) = Len(tList)
        /\ \A n \in 1..Len(tList) : \E p \in 1..Len(tOut) : tOut[p].name = n
        /\ \A p \in 1..Len(tOut) - 1 : tOut[p].score.v >= tOut[p + 1].score.v
        /\ \A i, j \in 1..Len(tList) :
              (i < j /\ FallbackScore(tList[i]) = FallbackScore(tList[j]))
                  => PositionOf(i) < PositionOf(j)

\* a list in which two different venues tie behind a later, better one
C12_Witness ==
    /\ tDone
    /\ Len(tList) = 3
    /\ FallbackScore(tList[1]) = FallbackScore(tList[2])
    /\ tList[1].user_ratings_total # tList[2].user_ratings_total
    /\ FallbackScore(tList[3]) > FallbackScore(tList[1])
    /\ tOut[1].name = 3 /\ tOut[2].name = 1 /\ tOut[3].name = 2

\* C24: the fallback ranking of N venues returns all N venues, each exactly
\* once and unchanged but for what ranking adds, and in the returned list a
\* later rank never has a higher score than an earlier one.
C24_PermutationByScore ==
    tDone =>
        /\ Len(tOut) = Len(tList)
        /\ \A n \in 1..Len(tList) :
              Cardinality({ p \in 1..Len(tOut) : tOut[p].name = n }) = 1
        /\ \A p \in 1..Len(tOut) : Enriched(tOut[p]) = tList[tOut[p].name]
        /\ \A p, q \in 1..Len(tOut) :
              tOut[p].rank < tOut[q].rank => tOut[p].score.v >= tOut[q].score.v

\* three venues of three different scores, handed in worst first
C24_Witness ==
    /\ tDone
    /\ Len(tList) = 3
    /\ FallbackScore(tList[1]) < FallbackScore(tList[2])
    /\ FallbackScore(tList[2]) < FallbackScore(tList[3])
    /\ Names(tOut) = <<3, 2, 1>>
    /\ tOut[1].rank = 1 /\ tOut[3].rank = 3

---------------------------------------------------------------------------
(* Properties of the midpoint, under SpecMid *)

HasMidpoint == mWeighted # NoMidpoint

\* calculate_simple_midpoint of the same two coordinates
SimpleMid == CalculateSimpleMidpoint(coord1, coord2)

\* C14: with mode1 = mode2 the weighted midpoint has exactly the latitude
\* and longitude of the simple midpoint, and an adjustment_km of 0.
C14_SameModeExact ==
    (HasMidpoint /\ mode1 = mode2) =>
        /\ mWeighted.lat = SimpleMid.lat
        /\ mWeighted.lng = SimpleMid.lng
        /\ mWeighted.adjustment_km = Zero

\* |x - y|, not rounded: the number m * 2^e
Gap(x, y) ==
    LET e == Min(x.e, y.e)
        a == ShiftLeft(x.m, x.e - e)
        b == ShiftLeft(y.m, y.e - e)
    IN  [m |-> IF x.neg # y.neg THEN BigAdd(a, b)
               ELSE IF BigCmp(a, b) >= 0 THEN BigSub(a, b)
               ELSE BigSub(b, a),
         e |-> e]

\* g < h
Below(g, h) ==
    LET e == Min(g.e, h.e)
    IN  BigCmp(ShiftLeft(g.m, g.e - e), ShiftLeft(h.m, h.e - e)) < 0

\* w is strictly closer to a than s is
Closer(w, s, a) == Below(Gap(w, a), Gap(s, a))

\* C15: when person 1's weight is the larger one, the weighted midpoint is
\* strictly closer to person 1's coordinate than the simple midpoint is, in
\* each of latitude and longitude in which the two coordinates differ; and
\* the same toward person 2 when person 2's weight is the larger one.
C15_PulledTowardSlower ==
    HasMidpoint =>
        /\ (Less(mWeighted.weight2, mWeighted.weight1)
               /\ coord1.lat # coord2.lat)
              => Closer(mWeighted.lat, SimpleMid.lat, coord1.lat)
        /\ (Less(mWeighted.weight2, mWeighted.weight1)
               /\ coord1.lng # coord2.lng)
              => Closer(mWeighted.lng, SimpleMid.lng, coord1.lng)
        /\ (Less(mWeighted.weight1, mWeighted.weight2)
               /\ coord1.lat # coord2.lat)
              => Closer(mWeighted.lat, SimpleMid.lat, coord2.lat)
        /\ (Less(mWeighted.weight1, mWeighted.weight2)
               /\ coord1.lng # coord2.lng)
              => Closer(mWeighted.lng, SimpleMid.lng, coord2.lng)

\* C16: calculate_weighted_midpoint completes for every mode, gives a mode
\* that is no key of the weights the transit weight, and reports modes that
\* are among walking, bicycling, transit and driving, transit standing in
\* for an unrecognized one; the mode get_travel_time sends is among the
\* four as well.
C16_ModeNormalized ==
    /\ HasMidpoint =>
          /\ Lower(mode1) \notin TravelModes
                => /\ mWeighted.weight1 = TRAVEL_WEIGHTS["transit"]
                   /\ mWeighted.mode1 = "transit"
          /\ Lower(mode2) \notin TravelModes
                => /\ mWeighted.weight2 = TRAVEL_WEIGHTS["transit"]
                   /\ mWeighted.mode2 = "transit"
          /\ mWeighted.mode1 \in TravelModes
          /\ mWeighted.mode2 \in TravelModes
    /\ mSent # "none" => mSent \in TravelModes

---------------------------------------------------------------------------
(* Properties of the main flow, under SpecMain *)

\* step 3 has been taken
MidpointTried == \E i \in 1..Len(steps) : steps[i] = "midpoint"

\* C17: the time-fair midpoint of the main flow never raises; with no
\* travel-time oracle call succeeding (none is made) it returns the
\* weighted-by-mode midpoint of the two coordinates and modes, marked as
\* such.
C17_TimeFairFallsBack ==
    MidpointTried =>
        /\ flowExc = "none"
        /\ midpoint.method = "weighted_by_travel_mode"
        /\ midpoint \in
             CalculateWeightedMidpoint(
                 [lat |-> session.coords_1.lat, lng |-> session.coords_1.lng],
                 [lat |-> session.coords_2.lat, lng |-> session.coords_2.lng],
                 session.mode_1, session.mode_2)

\* main() is over: it returned, or an exception left it
Over == flow \in {"returned", "raised"}

BothGeocoded == session.coords_1.success /\ session.coords_2.success

\* step a is taken, and step b after it
TakenInOrder(a, b) ==
    \E i, j \in 1..Len(steps) : i < j /\ steps[i] = a /\ steps[j] = b

\* C19: an iteration in which both locations geocode takes the steps in the
\* order geocode, midpoint, venue search, and does not end before the venue
\* search around the computed midpoint.
C19_MidpointThenSearch ==
    (Over /\ BothGeocoded) =>
        /\ TakenInOrder("geocode", "midpoint")
        /\ TakenInOrder("midpoint", "search")

---------------------------------------------------------------------------
(* Properties of what rank_places writes to, under SpecFrame *)

\* the dictionaries the caller holds: its venues, and the venues of every
\* list it was handed back
HeldIds ==
    { callerList[k] : k \in 1..Len(callerList) }
    \cup UNION { { held[c][k] : k \in 1..Len(held[c]) } : c \in 1..Len(held) }

\* C20: a call of rank_places, on the delegate path or the fallback path,
\* leaves the caller's venue list and every venue in it as they were (no
\* travel, rank, reasoning or score key appears in them), and leaves every
\* list an earlier call returned, and every venue in it, as they were.
C20_CallLeavesHeldAlone ==
    [][/\ callerList' = callerList
       /\ \A c \in 1..Len(held) : held'[c] = held[c]
       /\ \A id \in HeldIds : heap'[id] = heap[id]
       /\ \A k \in 1..Len(callerList) : heap'[callerList[k]] = Catalogue(k)
      ]_vars

\* a fallback ranking of two venues, then a delegate ranking of the same
\* two venues in the opposite order; the first list still holds the
\* fallback's ranks and scores
C20_Witness ==
    /\ Len(callerList) = 2
    /\ Len(held) = 2
    /\ heldPaths = <<"fallback", "ai">>
    /\ Len(held[1]) = 2 /\ Len(held[2]) = 2
    /\ heap[held[1][1]].rank = 1 /\ heap[held[1][1]].score.t = "num"
    /\ heap[held[2][1]].name # heap[held[1][1]].name
    /\ heap[held[2][1]].rank = 1
    /\ \A k \in 1..2 : heap[callerList[k]] = Catalogue(k)

\* the enrichment loop has run to its end
EnrichmentOver == pc = "delegate" \/ delegateCalls > 0

\* the answers the oracle gave for venue i, whatever their place in the log
AnswersFor(i, person) ==
    { oracleLog[k].success : k \in { j \in 1..Len(oracleLog) :
        oracleLog[j].venue = i /\ oracleLog[j].person = person } }

\* C21: once the enrichment loop is over, places_with_travel has the length
\* and the order of the caller's list, and its i-th entry is venue i with the
\* outcome of the oracle's two answers for venue i: a fairness ratio and both
\* travel times when both answers were successes, no fairness otherwise.
C21_EnrichedByIndex ==
    EnrichmentOver =>
        /\ Len(pwt) = Len(places)
        /\ \A i \in 1..Len(pwt) :
            /\ pwt[i].name = places[i].name
            /\ pwt[i].rating = places[i].rating
            /\ pwt[i].user_ratings_total = places[i].user_ratings_total
            /\ pwt[i].open_now = places[i].open_now
            /\ IF AnswersFor(i, 1) = {TRUE} /\ AnswersFor(i, 2) = {TRUE}
               THEN /\ pwt[i].travel_fairness.t = "num"
                    /\ pwt[i].time_person1.t = "num"
                    /\ pwt[i].time_person2.t = "num"
               ELSE pwt[i].travel_fairness = None

C21_Witness ==
    /\ pc = "delegate"
    /\ Len(places) = 3
    /\ AnswersFor(1, 1) = {FALSE}
    /\ AnswersFor(2, 1) = {TRUE} /\ AnswersFor(2, 2) = {TRUE}
    /\ AnswersFor(3, 2) = {FALSE}
    /\ pwt[1].travel_fairness = None
    /\ pwt[2].travel_fairness = Num(0)
    /\ pwt[3].travel_fairness = None

---------------------------------------------------------------------------
(* Properties of _calculate_distance, under SpecDist *)

Measured3 == dSelf # NoDistance

\* C22: for all valid coordinates a and b the great-circle distance from a
\* to itself is 0, and the distance from a to b is the distance from b to a:
\* each of the three is a number, none an exception.
C22_ZeroAndSymmetric ==
    Measured3 =>
        /\ dSelf = [raised |-> FALSE, km |-> Zero]
        /\ ~dThere.raised /\ dThere # NoDistance
        /\ ~dBack.raised /\ dBack # NoDistance
        /\ dThere.km = dBack.km

---------------------------------------------------------------------------
(* What a returned venue carries, under Spec *)

\* the values of ai_reasoning that are strings: a reason of the delegate's,
\* the placeholder 'No reasoning provided', the text that states a score
ReasoningStrings == {"delegate", "default", "score"}

\* Python index of the venue a returned entry is a copy of
IndexOf(r) == r.name - 1

\* C25: every venue of a returned list carries a reasoning string: on the
\* delegate path the delegate's reason for that venue's index or, when it
\* gave none, the placeholder; on the fallback path the text that states
\* that venue's fallback score.
C25_ReasoningString ==
    Returned =>
        \A k \in 1..Len(result) :
            LET r == result[k]
            IN  /\ r.ai_reasoning.src \in ReasoningStrings
                /\ path = "ai" =>
                    /\ r.ai_reasoning.src \in {"delegate", "default"}
                    /\ r.ai_reasoning.src = "delegate"
                            => r.ai_reasoning.v = IndexOf(r)
                    /\ r.ai_reasoning.src = "default"
                            => response.reasoning = "absent"
                /\ path = "fallback" =>
                    /\ r.ai_reasoning.src = "score"
                    /\ r.ai_reasoning.v = FallbackScore(Enriched(r))
                    /\ r.score = Num(FallbackScore(Enriched(r)))

\* C27: on the delegate path each input venue appears at most once in the
\* list rank_places returns, whatever the delegate answered.
C27_NoVenueTwice ==
    (Returned /\ path = "ai") =>
        \A j, k \in 1..Len(result) :
            result[j].name = result[k].name => j = k

---------------------------------------------------------------------------
(* The order of the calls rank_places makes, under Spec *)

\* the measurements of the first n venues: person 1 then person 2 for each
\* venue in turn, whatever the answers
InSchedule(n) ==
    /\ Len(oracleLog) = 2 * n
    /\ \A i \in 1..n :
        /\ oracleLog[2 * i - 1].venue = i /\ oracleLog[2 * i - 1].person = 1
        /\ oracleLog[2 * i].venue = i /\ oracleLog[2 * i].person = 2

\* C23: a rank_places call over N >= 1 venues, on an agent that has a
\* distance matrix tool, measures every venue exactly twice, person 1 then
\* person 2, the second even when the first failed; all 2N measurements are
\* made before the delegate is asked, and the delegate is asked at most once.
C23_TwoPerVenueThenDelegate ==
    /\ delegateCalls <= 1
    /\ distance_matrix_tool =>
        /\ \E n \in 0..Len(places) : InSchedule(n)
        /\ delegateCalls = 1 => InSchedule(Len(places))
        /\ (Left /\ places # <<>>) => InSchedule(Len(places))

---------------------------------------------------------------------------
(* The session at the top of the loop, under SpecMain *)

\* an iteration that starts with both locations in the session
StartsWithLocations == flow = "loop" /\ HasLocations

\* C28: at the start of every iteration of the main loop a session that
\* holds both locations also holds both geocoded coordinates and both travel
\* modes.  No iteration after the first one starts (step 3 raises), and the
\* first starts with an empty session: StartsWithLocations is never true.
C28_PreviousLocationsComplete ==
    StartsWithLocations =>
        /\ BothGeocoded
        /\ session.mode_1 # "" /\ session.mode_2 # ""

---------------------------------------------------------------------------
(* Properties of the memory bank, under SpecMemory *)

\* C26: after any sequence of record_search calls on a SessionManager every
\* call has returned, search_history holds at most 10 entries, they are the
\* most recent searches in the order recorded (after those the memory file
\* already held), and total_searches has grown by exactly 1 per call.
C26_LastTenInOrder ==
    recorded # <<>> =>
        /\ memExc = "none"
        /\ Len(memory_bank.search_history) <= HistoryCap
        /\ memory_bank.search_history
                = LastTen(loaded.search_history \o recorded)
        /\ memory_bank.total_searches
                = loaded.total_searches + Len(recorded)

\* C29: the preferences passed to the next ranking after a selection in the
\* refinement menu reflect only the latest selection: likes_quiet is true
\* only if the latest priority is 'quiet' and price_preference is 'low'
\* only if the latest priority is 'cheap'.
C29_LatestSelectionOnly ==
    (latest # "none" /\ user_prefs # NoUserPrefs) =>
        /\ user_prefs.priority = latest
        /\ user_prefs.likes_quiet = "true" => latest = "quiet"
        /\ user_prefs.price_preference = "low" => latest = "cheap"

\* C30: constructing a SessionManager yields a memory bank with the keys
\* user_preferences, frequent_locations, search_history and total_searches
\* whatever the memory file holds, and no later memory operation raises.
C30_BankAlwaysWellFormed ==
    manager # "new" =>
        /\ memory_bank.shape = "bank"
        /\ memExc = "none"
        /\ manager = "ready"

===========================================================================
